---- MODULE Spec2Model ----
(***************************************************************************)
(* Referral-commerce backend (partner promo codes, ambassador referral     *)
(* codes, redemption, ledger and payout), modelled from the Express        *)
(* handlers of src/unnamed/part_001, lines 496-2556.                       *)
(*                                                                         *)
(* Every handler is an async function.  JavaScript runs the code between   *)
(* two awaits without interruption, so one action of the model is one      *)
(* awaited call (a Firestore read or write, a Stripe call) together with   *)
(* the synchronous code that follows it up to the next await.  Handlers    *)
(* of different HTTP requests interleave at the awaits.  Every awaited     *)
(* call may reject; the handler's catch block then answers 500.            *)
(*                                                                         *)
(* Money is kept in thousandths of a dollar (150.456 is 150456) and rates  *)
(* in hundredths (0.3 is 30), so that the products the handlers compute    *)
(* are exact on the inputs the model draws.                                *)
(***************************************************************************)
EXTENDS Integers, Sequences, FiniteSets, TLC

VARIABLES
  users,              \* collection "users": user id -> document
  promoCodes,         \* collection "promoCodes": sequence, document id = index
  referralCodes,      \* collection "referralCodes"
  partners,           \* collection "partners": user id -> document
  ambassadors,        \* collection "ambassadors": user id -> document
  partnerTracking,    \* collection "partnerTracking": redemption records
  referralTracking,   \* collection "referralTracking": redemption records
  partnerPayouts,     \* collection "partnerPayouts": payout requests
  ambassadorPayouts,  \* collection "ambassadorPayouts": payout requests
  transfers,          \* successful stripe.transfers.create calls, in order
  now,                \* the clock (new Date()), in days
  calls,              \* the handler activations in flight, per slot
  ncalls,             \* number of HTTP requests received so far
  approvedOk,         \* history: <<role, request id>> whose approvePayout answered 200
  ambassador_payouts, \* collection "ambassador_payouts": payout requests of /request-payout
  payout_requests     \* collection "payout_requests", read by /cancel-payout

vars == <<users, promoCodes, referralCodes, partners, ambassadors,
          partnerTracking, referralTracking, partnerPayouts, ambassadorPayouts,
          transfers, now, calls, ncalls, approvedOk,
          ambassador_payouts, payout_requests>>

-----------------------------------------------------------------------------
(* Bounds of the model *)

MaxInFlight == 2      \* handler activations running at the same time
MaxPayoutCalls == 4   \* HTTP requests per behaviour of SpecPayout
MaxRedeemCalls == 3   \* HTTP requests per behaviour of SpecRedeem
MaxSubmitCalls == 3   \* HTTP requests per behaviour of SpecSubmit
MaxRandom == 2        \* Math.random() draws one of the first MaxRandom suffixes
MaxQueries == 6       \* passes of the ambassador code generation loop that are followed

(* Program constants *)

Null == -1                    \* null / undefined of a numeric field
DefaultUsageLimit == 100      \* usageLimit written by submitApplication
WindowDays == 100             \* validity window set on approval
PartnerFallbackShare == 3000  \* "let partnerSharePercentage = 30", in hundredths
AmbassadorFallbackRate == 10  \* "?? 0.1", in hundredths
MaxAttempts == 5              \* "attempts < 5" of the partner code generation

Slots == 1..MaxInFlight
UserIds == {"u1", "u2"}
NoUser == "nobody"            \* an id with no document in "users"
AllIds == UserIds \cup {NoUser}
Roles == {"partner", "ambassador"}
NoAccount == "none"           \* stripe.connectAccountId not set
Accounts == {"acct_u1", "acct_x"}
Missing == ""                 \* a request field that was not sent
NoDoc == [exists |-> FALSE]   \* snapshot.exists() is false
NoRes == [code |-> 0, body |-> ""]
Idle == [pc |-> "idle", op |-> "none", role |-> "none", arg |-> <<>>, loc |-> <<>>, res |-> NoRes]

-----------------------------------------------------------------------------
(* Arithmetic of the handlers *)

\* amount * rate, the rate in hundredths
Mul(a, r) == (a * r) \div 100

\* Math.floor in place of Math.round: the rounding C8 depends on
AmountInCentsTruncated(payoutAmount) == payoutAmount \div 10

\* Math.round(payoutAmount * 100): cents from thousandths, halves rounded up
AmountInCents(payoutAmount) == (payoutAmount + 5) \div 10

-----------------------------------------------------------------------------
(* Access to the two referrer collections and the two payout collections *)

Referrers(role) == IF role = "partner" THEN partners ELSE ambassadors

Payouts(role) == IF role = "partner" THEN partnerPayouts ELSE ambassadorPayouts

SetReferrers(role, f) ==
  IF role = "partner"
    THEN partners' = f /\ UNCHANGED ambassadors
    ELSE ambassadors' = f /\ UNCHANGED partners

SetPayouts(role, s) ==
  IF role = "partner"
    THEN partnerPayouts' = s /\ UNCHANGED ambassadorPayouts
    ELSE ambassadorPayouts' = s /\ UNCHANGED partnerPayouts

\* getDoc(doc(db, "<role>Payouts", requestId))
GetRequest(role, requestId) ==
  IF requestId \in DOMAIN Payouts(role) THEN Payouts(role)[requestId] ELSE NoDoc

-----------------------------------------------------------------------------
(* Handler activations *)

\* A new request is served by the lowest free slot.
FreeSlot(c) ==
  /\ calls[c].pc = "idle"
  /\ \A d \in Slots : d < c => calls[d].pc # "idle"

Begin(c, op, role, arg, pc) ==
  /\ FreeSlot(c)
  /\ calls' = [calls EXCEPT ![c] =
       [pc |-> pc, op |-> op, role |-> role, arg |-> arg, loc |-> <<>>, res |-> NoRes]]
  /\ ncalls' = ncalls + 1

\* a request the handler answers before its first await
BeginDone(c, op, role, arg, code, body) ==
  /\ FreeSlot(c)
  /\ calls' = [calls EXCEPT ![c] =
       [pc |-> "done", op |-> op, role |-> role, arg |-> arg, loc |-> <<>>,
        res |-> [code |-> code, body |-> body]]]
  /\ ncalls' = ncalls + 1

\* res.status(code).json(body), which ends the handler
Respond(c, code, body) ==
  calls' = [calls EXCEPT ![c] = [@ EXCEPT !.pc = "done", !.res = [code |-> code, body |-> body]]]

\* the catch block: res.status(500)
Throw(c) == Respond(c, 500, "error")

Goto(c, pc, loc) ==
  calls' = [calls EXCEPT ![c] = [@ EXCEPT !.pc = pc, !.loc = loc]]

At(c, op, pc) == calls[c].op = op /\ calls[c].pc = pc

\* The response has been sent and the activation is gone.
Return(c) ==
  /\ calls[c].pc = "done"
  /\ calls' = [calls EXCEPT ![c] = Idle]
  /\ UNCHANGED <<users, promoCodes, referralCodes, partners, ambassadors,
                 partnerTracking, referralTracking, partnerPayouts,
                 ambassadorPayouts, transfers, now,
                 ambassador_payouts, payout_requests, ncalls, approvedOk>>

DbUnchanged ==
  UNCHANGED <<users, promoCodes, referralCodes, partners, ambassadors,
              partnerTracking, referralTracking, partnerPayouts,
              ambassadorPayouts, transfers, now,
              ambassador_payouts, payout_requests, approvedOk>>

-----------------------------------------------------------------------------
(* POST /api/<role>/requestPayout *)

\* the field requestPayout reads as the balance
RequestBalance(role, d) ==
  IF role = "partner" THEN d.totalPartnerRevenue ELSE d.commissionEarned

RequestPayoutStart(c, role, id, acct) ==
  /\ IF id = Missing \/ acct = Missing
       THEN BeginDone(c, "requestPayout", role, [id |-> id, connectedAccountId |-> acct],
                      400, "id and connectedAccountId are required")
       ELSE Begin(c, "requestPayout", role, [id |-> id, connectedAccountId |-> acct],
                  "rp_getReferrer")
  /\ DbUnchanged

RequestPayoutGetReferrer(c, fails) ==
  /\ At(c, "requestPayout", "rp_getReferrer")
  /\ LET role == calls[c].role
         arg == calls[c].arg
         d == Referrers(role)[arg.id]
     IN IF fails THEN Throw(c)
        ELSE IF ~d.exists THEN Respond(c, 404, "Referrer not found")
        ELSE IF d.connectAccountId # arg.connectedAccountId
          THEN Respond(c, 400, "Connected account ID mismatch")
        ELSE IF RequestBalance(role, d) <= 0
          THEN Respond(c, 400, "No referral balance available")
        ELSE Goto(c, "rp_addDoc", [balance |-> RequestBalance(role, d)])
  /\ UNCHANGED ncalls
  /\ DbUnchanged

RequestPayoutAddDoc(c, fails) ==
  /\ At(c, "requestPayout", "rp_addDoc")
  /\ LET role == calls[c].role
         arg == calls[c].arg
         balance == calls[c].loc.balance
     IN IF fails
          THEN /\ Throw(c)
               /\ UNCHANGED <<partnerPayouts, ambassadorPayouts>>
          ELSE /\ SetPayouts(role, Append(Payouts(role),
                    [exists |-> TRUE, referrerId |-> arg.id,
                     connectedAccountId |-> arg.connectedAccountId,
                     amount |-> balance, status |-> "pending", transferId |-> Null]))
               /\ Respond(c, 200, "Payout request submitted")
  /\ UNCHANGED <<users, promoCodes, referralCodes, partners, ambassadors,
                 partnerTracking, referralTracking, transfers, now,
                 ambassador_payouts, payout_requests, ncalls, approvedOk>>

-----------------------------------------------------------------------------
(* POST /api/<role>/approvePayout *)

\* arg.retry is history, not program state: whether an approvePayout of this
\* request had already answered 200 when this call arrived
ApprovePayoutStart(c, role, requestId) ==
  /\ LET arg == [requestId |-> requestId, retry |-> <<role, requestId>> \in approvedOk]
     IN IF requestId = 0
          THEN BeginDone(c, "approvePayout", role, arg, 400, "requestId is required")
          ELSE Begin(c, "approvePayout", role, arg, "ap_getRequest")
  /\ DbUnchanged

\* the read of the request without the status check C5 depends on
ApprovePayoutGetRequestUnchecked(c, fails) ==
  /\ At(c, "approvePayout", "ap_getRequest")
  /\ LET request == GetRequest(calls[c].role, calls[c].arg.requestId)
     IN IF fails THEN Throw(c)
        ELSE IF ~request.exists THEN Respond(c, 404, "Request not found")
        ELSE Goto(c, "ap_getReferrer", [request |-> request])
  /\ UNCHANGED ncalls
  /\ DbUnchanged

\* 1. fetch the payout request; it must exist and be pending
ApprovePayoutGetRequest(c, fails) ==
  /\ At(c, "approvePayout", "ap_getRequest")
  /\ LET request == GetRequest(calls[c].role, calls[c].arg.requestId)
     IN IF fails THEN Throw(c)
        ELSE IF ~request.exists THEN Respond(c, 404, "Request not found")
        ELSE IF request.status # "pending" THEN Respond(c, 400, "Request already processed")
        ELSE Goto(c, "ap_getReferrer", [request |-> request])
  /\ UNCHANGED ncalls
  /\ DbUnchanged

\* 2.-3. fetch the referrer; the payout is its current availableBalance
ApprovePayoutGetReferrer(c, fails) ==
  /\ At(c, "approvePayout", "ap_getReferrer")
  /\ LET request == calls[c].loc.request
         d == Referrers(calls[c].role)[request.referrerId]
     IN IF fails THEN Throw(c)
        ELSE IF ~d.exists THEN Respond(c, 404, "Referrer not found")
        ELSE IF d.availableBalance <= 0
          THEN Respond(c, 400, "No balance available for payout")
        ELSE Goto(c, "ap_transfer",
                  [request |-> request, payoutAmount |-> d.availableBalance,
                   amountInCents |-> AmountInCents(d.availableBalance)])
  /\ UNCHANGED ncalls
  /\ DbUnchanged

\* the transfer step without the rejection C7 depends on: a failed transfer
\* is ignored and the handler goes on without a transfer id
ApprovePayoutTransferUncaught(c, fails) ==
  /\ At(c, "approvePayout", "ap_transfer")
  /\ LET loc == calls[c].loc
     IN /\ transfers' = IF fails THEN transfers
                        ELSE Append(transfers,
                               [amount |-> loc.amountInCents,
                                destination |-> loc.request.connectedAccountId,
                                role |-> calls[c].role,
                                requestId |-> calls[c].arg.requestId])
        /\ Goto(c, "ap_updateRequest",
                [request |-> loc.request, payoutAmount |-> loc.payoutAmount,
                 amountInCents |-> loc.amountInCents,
                 transferId |-> IF fails THEN Null ELSE Len(transfers) + 1])
  /\ UNCHANGED <<users, promoCodes, referralCodes, partners, ambassadors,
                 partnerTracking, referralTracking, partnerPayouts,
                 ambassadorPayouts, now,
                 ambassador_payouts, payout_requests, ncalls, approvedOk>>

\* 4. stripe.transfers.create; the transfer id is its position in transfers
ApprovePayoutTransfer(c, fails) ==
  /\ At(c, "approvePayout", "ap_transfer")
  /\ LET loc == calls[c].loc
     IN IF fails
          THEN Throw(c) /\ UNCHANGED transfers
          ELSE /\ transfers' = Append(transfers,
                    [amount |-> loc.amountInCents,
                     destination |-> loc.request.connectedAccountId,
                     role |-> calls[c].role, requestId |-> calls[c].arg.requestId])
               /\ Goto(c, "ap_updateRequest",
                       [request |-> loc.request, payoutAmount |-> loc.payoutAmount,
                        amountInCents |-> loc.amountInCents,
                        transferId |-> Len(transfers) + 1])
  /\ UNCHANGED <<users, promoCodes, referralCodes, partners, ambassadors,
                 partnerTracking, referralTracking, partnerPayouts,
                 ambassadorPayouts, now,
                 ambassador_payouts, payout_requests, ncalls, approvedOk>>

\* 5. mark the request approved (the partner handler also rewrites amount)
ApprovePayoutUpdateRequest(c, fails) ==
  /\ At(c, "approvePayout", "ap_updateRequest")
  /\ LET role == calls[c].role
         rid == calls[c].arg.requestId
         loc == calls[c].loc
     IN IF fails
          THEN Throw(c) /\ UNCHANGED <<partnerPayouts, ambassadorPayouts>>
          ELSE /\ SetPayouts(role, [Payouts(role) EXCEPT ![rid] =
                    [@ EXCEPT !.status = "approved",
                              !.transferId = loc.transferId,
                              !.amount = IF role = "partner" THEN loc.payoutAmount ELSE @]])
               /\ Goto(c, "ap_updateReferrer", loc)
  /\ UNCHANGED <<users, promoCodes, referralCodes, partners, ambassadors,
                 partnerTracking, referralTracking, transfers, now,
                 ambassador_payouts, payout_requests, ncalls, approvedOk>>

\* 6.-7. zero the referrer's availableBalance and answer
ApprovePayoutUpdateReferrer(c, fails) ==
  /\ At(c, "approvePayout", "ap_updateReferrer")
  /\ LET role == calls[c].role
         id == calls[c].loc.request.referrerId
     IN IF fails
          THEN Throw(c) /\ UNCHANGED <<partners, ambassadors, approvedOk>>
          ELSE /\ SetReferrers(role, [Referrers(role) EXCEPT ![id].availableBalance = 0])
               /\ Respond(c, 200, "success")
               /\ approvedOk' = approvedOk \cup {<<role, calls[c].arg.requestId>>}
  /\ UNCHANGED <<users, promoCodes, referralCodes, partnerTracking, referralTracking,
                 partnerPayouts, ambassadorPayouts, transfers, now,
                 ambassador_payouts, payout_requests, ncalls>>

-----------------------------------------------------------------------------
(* POST /api/<role>/cancelPayout *)

CancelPayoutStart(c, role, requestId) ==
  /\ IF requestId = 0
       THEN BeginDone(c, "cancelPayout", role, [requestId |-> requestId],
                      400, "requestId is required")
       ELSE Begin(c, "cancelPayout", role, [requestId |-> requestId], "cp_getRequest")
  /\ DbUnchanged

\* the read of the request without the status check C11 depends on
CancelPayoutGetRequestUnchecked(c, fails) ==
  /\ At(c, "cancelPayout", "cp_getRequest")
  /\ LET request == GetRequest(calls[c].role, calls[c].arg.requestId)
     IN IF fails THEN Throw(c)
        ELSE IF ~request.exists THEN Respond(c, 404, "Request not found")
        ELSE Goto(c, "cp_update", [request |-> request])
  /\ UNCHANGED ncalls
  /\ DbUnchanged

\* 1.-2. fetch the payout request; it must exist and be pending
CancelPayoutGetRequest(c, fails) ==
  /\ At(c, "cancelPayout", "cp_getRequest")
  /\ LET request == GetRequest(calls[c].role, calls[c].arg.requestId)
     IN IF fails THEN Throw(c)
        ELSE IF ~request.exists THEN Respond(c, 404, "Request not found")
        ELSE IF request.status # "pending" THEN Respond(c, 400, "Request already processed")
        ELSE Goto(c, "cp_update", [request |-> request])
  /\ UNCHANGED ncalls
  /\ DbUnchanged

\* 3.-4. mark the request cancelled and answer
CancelPayoutUpdate(c, fails) ==
  /\ At(c, "cancelPayout", "cp_update")
  /\ LET role == calls[c].role
         rid == calls[c].arg.requestId
     IN IF fails
          THEN Throw(c) /\ UNCHANGED <<partnerPayouts, ambassadorPayouts>>
          ELSE /\ SetPayouts(role, [Payouts(role) EXCEPT ![rid].status = "cancelled"])
               /\ Respond(c, 200, "Payout request cancelled")
  /\ UNCHANGED <<users, promoCodes, referralCodes, partners, ambassadors,
                 partnerTracking, referralTracking, transfers, now,
                 ambassador_payouts, payout_requests, ncalls, approvedOk>>

-----------------------------------------------------------------------------
(* GET /api/promoCode/validate/:code *)

\* new Date(null) is the epoch, which lies before every day of the model
DateOf(d) == IF d = Null THEN 0 ELSE d

\* the number a limit compares as: null >= and <= like 0
NumberOf(usageLimit) == IF usageLimit = Null THEN 0 ELSE usageLimit

ValidatePromoStart(c, code) ==
  /\ Begin(c, "validatePromo", "partner", [code |-> code], "vp_getDocs")
  /\ DbUnchanged

\* getDocs(collection(db, "promoCodes")), then find(p => p.code === code):
\* the first match in the order of the generated document ids
ValidatePromoGetDocs(c, fails) ==
  /\ At(c, "validatePromo", "vp_getDocs")
  /\ LET found == {i \in DOMAIN promoCodes :
                     promoCodes[i].exists /\ promoCodes[i].code = calls[c].arg.code}
     IN IF fails THEN Respond(c, 500, "Failed to validate promo code")
        ELSE IF found = {} THEN Respond(c, 404, "Promo not found")
        ELSE \E i \in found :
          LET promo == promoCodes[i]
          IN IF now < DateOf(promo.validFrom) \/ now > DateOf(promo.validTo)
               THEN Respond(c, 400, "Promo expired")
             ELSE IF promo.timesUsed >= NumberOf(promo.usageLimit)
               THEN Respond(c, 400, "Usage limit reached")
             ELSE Respond(c, 200, "valid")
  /\ UNCHANGED ncalls
  /\ DbUnchanged

-----------------------------------------------------------------------------
(* POST /api/promoCode/use/:code *)

\* getDocs(query(collection(db, "promoCodes"), where("code", "==", code)))
PromoQuery(code) ==
  {i \in DOMAIN promoCodes : promoCodes[i].exists /\ promoCodes[i].code = code}

\* a redeem call of the user for the code has not answered yet
InFlight(op, userId, code) ==
  \E d \in Slots : /\ calls[d].op = op /\ calls[d].pc # "done"
                   /\ calls[d].arg.userId = userId /\ calls[d].arg.code = code

\* redeemed records, for the properties, whether the user had a redemption
\* record for the code, from calls that have answered, when the call arrived
UsePromoStart(c, code, userId, amount) ==
  /\ LET arg == [code |-> code, userId |-> userId, amount |-> amount,
                 redeemed |-> /\ ~InFlight("usePromo", userId, code)
                              /\ \E i \in DOMAIN partnerTracking :
                                   /\ partnerTracking[i].userId = userId
                                   /\ partnerTracking[i].promoCode = code]
     IN IF userId = Missing \/ amount = Null
          THEN BeginDone(c, "usePromo", "partner", arg, 400, "userId and amount are required")
          ELSE Begin(c, "usePromo", "partner", arg, "pu_getUser")
  /\ DbUnchanged

\* 1. the user must exist
UsePromoGetUser(c, fails) ==
  /\ At(c, "usePromo", "pu_getUser")
  /\ IF fails THEN Throw(c)
     ELSE IF ~users[calls[c].arg.userId].exists THEN Respond(c, 404, "User not found")
     ELSE Goto(c, "pu_findPromo", <<>>)
  /\ UNCHANGED ncalls
  /\ DbUnchanged

\* the split taken from the original amount instead of finalAmount, which
\* C14 depends on
PromoSplitOfOriginal(loc, share) ==
  [promoId |-> loc.promoId, promoData |-> loc.promoData, partnerId |-> loc.partnerId,
   discountPercentage |-> loc.discountPercentage, discountAmount |-> loc.discountAmount,
   finalAmount |-> loc.finalAmount, partnerSharePercentage |-> share,
   partnerRevenue |-> Mul(loc.finalAmount + loc.discountAmount, share),
   companyRevenue |-> loc.finalAmount - Mul(loc.finalAmount + loc.discountAmount, share)]

\* the split the handler computes once the share is known
PromoSplit(loc, share) ==
  [promoId |-> loc.promoId, promoData |-> loc.promoData, partnerId |-> loc.partnerId,
   discountPercentage |-> loc.discountPercentage, discountAmount |-> loc.discountAmount,
   finalAmount |-> loc.finalAmount, partnerSharePercentage |-> share,
   partnerRevenue |-> Mul(loc.finalAmount, share),
   companyRevenue |-> loc.finalAmount - Mul(loc.finalAmount, share)]

\* 2.-4. find the promo code, check the usage limit, compute the discount
UsePromoFindPromo(c, fails) ==
  /\ At(c, "usePromo", "pu_findPromo")
  /\ LET arg == calls[c].arg
         snapshot == PromoQuery(arg.code)
     IN IF fails THEN Throw(c)
        ELSE IF snapshot = {} THEN Respond(c, 404, "Promo code not found")
        ELSE \E promoId \in snapshot :
          LET promoData == promoCodes[promoId]
              discountPercentage == promoData.discountRate
              discountAmount == Mul(arg.amount, discountPercentage)
              loc == [promoId |-> promoId, promoData |-> promoData,
                      partnerId |-> promoData.partnerId,
                      discountPercentage |-> discountPercentage,
                      discountAmount |-> discountAmount,
                      finalAmount |-> arg.amount - discountAmount]
          IN IF promoData.usageLimit # Null /\ promoData.timesUsed >= promoData.usageLimit
               THEN Respond(c, 400, "Usage limit exceeded")
             ELSE IF promoData.partnerId # Missing
               THEN Goto(c, "pu_getPartner", loc)
             ELSE Goto(c, "pu_increment", PromoSplit(loc, PartnerFallbackShare))
  /\ UNCHANGED ncalls
  /\ DbUnchanged

\* 5. the partner's commission rate, or the fallback share
UsePromoGetPartner(c, fails) ==
  /\ At(c, "usePromo", "pu_getPartner")
  /\ LET loc == calls[c].loc
         d == partners[loc.partnerId]
     IN IF fails THEN Throw(c)
        ELSE IF d.exists /\ d.commissionRate # Null
          THEN Goto(c, "pu_increment", PromoSplit(loc, d.commissionRate))
        ELSE Goto(c, "pu_increment", PromoSplit(loc, PartnerFallbackShare))
  /\ UNCHANGED ncalls
  /\ DbUnchanged

\* 6. updateDoc(promoRef, { timesUsed: increment(1) })
UsePromoIncrement(c, fails) ==
  /\ At(c, "usePromo", "pu_increment")
  /\ LET promoId == calls[c].loc.promoId
     IN IF fails \/ ~promoCodes[promoId].exists
          THEN Throw(c) /\ UNCHANGED promoCodes
          ELSE /\ promoCodes' = [promoCodes EXCEPT ![promoId].timesUsed = @ + 1]
               /\ Goto(c, "pu_addTracking", calls[c].loc)
  /\ UNCHANGED <<users, referralCodes, partners, ambassadors, partnerTracking,
                 referralTracking, partnerPayouts, ambassadorPayouts, transfers,
                 now, ambassador_payouts, payout_requests, ncalls, approvedOk>>

\* 7. addDoc(collection(db, "partnerTracking"), ...)
UsePromoAddTracking(c, fails) ==
  /\ At(c, "usePromo", "pu_addTracking")
  /\ LET arg == calls[c].arg
         loc == calls[c].loc
     IN IF fails
          THEN Throw(c) /\ UNCHANGED partnerTracking
          ELSE /\ partnerTracking' = Append(partnerTracking,
                    [userId |-> arg.userId, promoCode |-> arg.code, promoId |-> loc.promoId,
                     partnerId |-> loc.partnerId, originalAmount |-> arg.amount,
                     discountPercentage |-> loc.discountPercentage,
                     discountAmount |-> loc.discountAmount,
                     finalAmount |-> loc.finalAmount,
                     companyRevenue |-> loc.companyRevenue,
                     partnerRevenue |-> loc.partnerRevenue,
                     partnerSharePercentage |-> loc.partnerSharePercentage])
               /\ IF loc.partnerId # Missing
                    THEN Goto(c, "pu_getPartner2", loc)
                    ELSE Respond(c, 200, "used")
  /\ UNCHANGED <<users, promoCodes, referralCodes, partners, ambassadors,
                 referralTracking, partnerPayouts, ambassadorPayouts, transfers,
                 now, ambassador_payouts, payout_requests, ncalls, approvedOk>>

\* 9. the second getDoc(partnerRef)
UsePromoGetPartner2(c, fails) ==
  /\ At(c, "usePromo", "pu_getPartner2")
  /\ IF fails THEN Throw(c)
     ELSE IF partners[calls[c].loc.partnerId].exists
       THEN Goto(c, "pu_updatePartner", calls[c].loc)
     ELSE Respond(c, 200, "used")
  /\ UNCHANGED ncalls
  /\ DbUnchanged

\* the partner update with plain writes in place of the increments C13
\* depends on
UsePromoUpdatePartnerOverwriting(c, fails) ==
  /\ At(c, "usePromo", "pu_updatePartner")
  /\ LET loc == calls[c].loc
     IN IF fails \/ ~partners[loc.partnerId].exists
          THEN Throw(c) /\ UNCHANGED partners
          ELSE /\ partners' = [partners EXCEPT ![loc.partnerId] =
                    [@ EXCEPT !.totalPartnerRevenue = loc.partnerRevenue,
                              !.availableBalance = loc.partnerRevenue,
                              !.totalDiscountGiven = loc.discountAmount,
                              !.timesUsed = loc.promoData.timesUsed + 1]]
               /\ Respond(c, 200, "used")
  /\ UNCHANGED <<users, promoCodes, referralCodes, ambassadors, partnerTracking,
                 referralTracking, partnerPayouts, ambassadorPayouts, transfers,
                 now, ambassador_payouts, payout_requests, ncalls, approvedOk>>

\* 9. updateDoc(partnerRef, ...): the increments are atomic, timesUsed and
\* leftPromo are written from the promo snapshot read in step 2
UsePromoUpdatePartner(c, fails) ==
  /\ At(c, "usePromo", "pu_updatePartner")
  /\ LET loc == calls[c].loc
         timesUsed == loc.promoData.timesUsed + 1
         usageLimit == IF loc.promoData.usageLimit = Null THEN 0 ELSE loc.promoData.usageLimit
     IN IF fails \/ ~partners[loc.partnerId].exists
          THEN Throw(c) /\ UNCHANGED partners
          ELSE /\ partners' = [partners EXCEPT ![loc.partnerId] =
                    [@ EXCEPT !.totalPartnerRevenue = @ + loc.partnerRevenue,
                              !.availableBalance = @ + loc.partnerRevenue,
                              !.totalDiscountGiven = @ + loc.discountAmount,
                              !.timesUsed = timesUsed,
                              !.leftPromo = IF usageLimit > 0 THEN usageLimit - timesUsed ELSE Null,
                              !.totalPromo = IF usageLimit > 0 THEN usageLimit ELSE Null]]
               /\ Respond(c, 200, "used")
  /\ UNCHANGED <<users, promoCodes, referralCodes, ambassadors, partnerTracking,
                 referralTracking, partnerPayouts, ambassadorPayouts, transfers,
                 now, ambassador_payouts, payout_requests, ncalls, approvedOk>>

-----------------------------------------------------------------------------
(* POST /api/referralCode/use/:code *)

\* getDocs(query(collection(db, "referralCodes"), where("referralCode", "==", code)))
ReferralQuery(code) ==
  {i \in DOMAIN referralCodes : referralCodes[i].exists /\ referralCodes[i].referralCode = code}

\* getDocs(query(collection(db, "referralTracking"), where userId, where referralCode))
PrevUsageQuery(userId, code) ==
  {i \in DOMAIN referralTracking :
     referralTracking[i].userId = userId /\ referralTracking[i].referralCode = code}

UseReferralStart(c, code, userId, amount) ==
  /\ LET arg == [code |-> code, userId |-> userId, amount |-> amount,
                 redeemed |-> /\ ~InFlight("useReferral", userId, code)
                              /\ PrevUsageQuery(userId, code) # {}]
     IN IF userId = Missing
          THEN BeginDone(c, "useReferral", "ambassador", arg, 400, "userId is required")
          ELSE Begin(c, "useReferral", "ambassador", arg, "ru_getUser")
  /\ DbUnchanged

\* 1. the user must exist
UseReferralGetUser(c, fails) ==
  /\ At(c, "useReferral", "ru_getUser")
  /\ IF fails THEN Throw(c)
     ELSE IF ~users[calls[c].arg.userId].exists THEN Respond(c, 404, "User not found")
     ELSE Goto(c, "ru_findReferral", <<>>)
  /\ UNCHANGED ncalls
  /\ DbUnchanged

\* 2.-4. find the referral code; check status, validity dates and usage limit
UseReferralFindReferral(c, fails) ==
  /\ At(c, "useReferral", "ru_findReferral")
  /\ LET referralSnap == ReferralQuery(calls[c].arg.code)
     IN IF fails THEN Throw(c)
        ELSE IF referralSnap = {} THEN Respond(c, 404, "Referral code not found")
        ELSE \E referralId \in referralSnap :
          LET referralData == referralCodes[referralId]
          IN IF referralData.status # "active"
               THEN Respond(c, 400, "Referral code is not active")
             ELSE IF referralData.validFrom # Null /\ referralData.validFrom > now
               THEN Respond(c, 400, "Referral code is not valid yet")
             ELSE IF referralData.validTo # Null /\ referralData.validTo < now
               THEN Respond(c, 400, "Referral code has expired")
             ELSE IF referralData.usageLimit # Null
                     /\ referralData.timesUsed >= referralData.usageLimit
               THEN Respond(c, 400, "Referral code usage limit reached")
             ELSE Goto(c, "ru_prevUsage",
                       [referralId |-> referralId, timesUsed |-> referralData.timesUsed,
                        usageLimit |-> referralData.usageLimit,
                        ambassadorId |-> referralData.ambassadorId, usedAt |-> now])
  /\ UNCHANGED ncalls
  /\ DbUnchanged

\* the commission the handler computes once the rate is known
ReferralCommission(loc, amount, commissionRate) ==
  [referralId |-> loc.referralId, timesUsed |-> loc.timesUsed,
   usageLimit |-> loc.usageLimit, ambassadorId |-> loc.ambassadorId,
   usedAt |-> loc.usedAt, commissionRate |-> commissionRate,
   commissionEarned |-> IF amount # Null /\ amount # 0 THEN Mul(amount, commissionRate) ELSE 0]

\* 5. the user must not have used this code before
UseReferralPrevUsage(c, fails) ==
  /\ At(c, "useReferral", "ru_prevUsage")
  /\ LET arg == calls[c].arg
         loc == calls[c].loc
     IN IF fails THEN Throw(c)
        ELSE IF PrevUsageQuery(arg.userId, arg.code) # {}
          THEN Respond(c, 400, "User already used this referral code")
        ELSE IF loc.ambassadorId # Missing
          THEN Goto(c, "ru_getAmbassador", loc)
        ELSE Goto(c, "ru_increment", ReferralCommission(loc, arg.amount, AmbassadorFallbackRate))
  /\ UNCHANGED ncalls
  /\ DbUnchanged

\* 6.-7. the ambassador's commission rate, or 0.1
UseReferralGetAmbassador(c, fails) ==
  /\ At(c, "useReferral", "ru_getAmbassador")
  /\ LET loc == calls[c].loc
         d == ambassadors[loc.ambassadorId]
         commissionRate == IF d.exists /\ d.commissionRate # Null
                             THEN d.commissionRate ELSE AmbassadorFallbackRate
     IN IF fails THEN Throw(c)
        ELSE Goto(c, "ru_increment", ReferralCommission(loc, calls[c].arg.amount, commissionRate))
  /\ UNCHANGED ncalls
  /\ DbUnchanged

\* 8. updateDoc(referralRef, { timesUsed: increment(1) })
UseReferralIncrement(c, fails) ==
  /\ At(c, "useReferral", "ru_increment")
  /\ LET referralId == calls[c].loc.referralId
     IN IF fails \/ ~referralCodes[referralId].exists
          THEN Throw(c) /\ UNCHANGED referralCodes
          ELSE /\ referralCodes' = [referralCodes EXCEPT ![referralId].timesUsed = @ + 1]
               /\ Goto(c, "ru_addTracking", calls[c].loc)
  /\ UNCHANGED <<users, promoCodes, partners, ambassadors, partnerTracking,
                 referralTracking, partnerPayouts, ambassadorPayouts, transfers,
                 now, ambassador_payouts, payout_requests, ncalls, approvedOk>>

\* 9. addDoc(collection(db, "referralTracking"), trackingData)
UseReferralAddTracking(c, fails) ==
  /\ At(c, "useReferral", "ru_addTracking")
  /\ LET arg == calls[c].arg
         loc == calls[c].loc
     IN IF fails
          THEN Throw(c) /\ UNCHANGED referralTracking
          ELSE /\ referralTracking' = Append(referralTracking,
                    [userId |-> arg.userId, ambassadorId |-> loc.ambassadorId,
                     referralCode |-> arg.code, referralId |-> loc.referralId,
                     usedAt |-> loc.usedAt, amount |-> arg.amount,
                     commissionRate |-> loc.commissionRate,
                     commissionEarned |-> loc.commissionEarned])
               /\ IF loc.ambassadorId # Missing
                    THEN Goto(c, "ru_updateAmbassador", loc)
                    ELSE Respond(c, 200, "used")
  /\ UNCHANGED <<users, promoCodes, referralCodes, partners, ambassadors,
                 partnerTracking, partnerPayouts, ambassadorPayouts, transfers,
                 now, ambassador_payouts, payout_requests, ncalls, approvedOk>>

\* 10. updateDoc(ambassadorRef, ...) with atomic increments; commissionEarned
\* is incremented only when an amount was given
UseReferralUpdateAmbassador(c, fails) ==
  /\ At(c, "useReferral", "ru_updateAmbassador")
  /\ LET arg == calls[c].arg
         loc == calls[c].loc
     IN IF fails \/ ~ambassadors[loc.ambassadorId].exists
          THEN Throw(c) /\ UNCHANGED ambassadors
          ELSE /\ ambassadors' = [ambassadors EXCEPT ![loc.ambassadorId] =
                    [@ EXCEPT !.totalReferrals = @ + 1,
                              !.totalAmbassadorRevenue = @ + loc.commissionEarned,
                              !.availableBalance = @ + loc.commissionEarned,
                              !.commissionEarned =
                                 IF arg.amount # Null /\ arg.amount # 0
                                   THEN @ + loc.commissionEarned ELSE @]]
               /\ Respond(c, 200, "used")
  /\ UNCHANGED <<users, promoCodes, referralCodes, partners, partnerTracking,
                 referralTracking, partnerPayouts, ambassadorPayouts, transfers,
                 now, ambassador_payouts, payout_requests, ncalls, approvedOk>>

-----------------------------------------------------------------------------
(* POST /request-payout, /approve-payout, /cancel-payout: the earliest      *)
(* payout variant, for ambassadors only                                     *)

\* getDoc(doc(db, collection, requestId))
GetEarlyRequest(collection, requestId) ==
  IF requestId \in DOMAIN collection THEN collection[requestId] ELSE NoDoc

EarlyRequestPayoutStart(c, ambassadorId, acct) ==
  /\ LET arg == [id |-> ambassadorId, connectedAccountId |-> acct]
     IN IF ambassadorId = Missing \/ acct = Missing
          THEN BeginDone(c, "request-payout", "ambassador", arg,
                         400, "ambassadorId and connectedAccountId are required")
          ELSE Begin(c, "request-payout", "ambassador", arg, "erp_getAmbassador")
  /\ DbUnchanged

\* 1.-2. fetch the ambassador; the account must match and the balance,
\* commissionEarned, must be positive
EarlyRequestPayoutGetAmbassador(c, fails) ==
  /\ At(c, "request-payout", "erp_getAmbassador")
  /\ LET arg == calls[c].arg
         d == ambassadors[arg.id]
     IN IF fails THEN Throw(c)
        ELSE IF ~d.exists THEN Respond(c, 404, "Ambassador not found")
        ELSE IF d.connectAccountId # arg.connectedAccountId
          THEN Respond(c, 400, "Connected account ID mismatch")
        ELSE IF d.commissionEarned <= 0
          THEN Respond(c, 400, "No referral balance available")
        ELSE Goto(c, "erp_addDoc", [balance |-> d.commissionEarned])
  /\ UNCHANGED ncalls
  /\ DbUnchanged

\* 3.-4. addDoc(collection(db, "ambassador_payouts"), ...) and answer
EarlyRequestPayoutAddDoc(c, fails) ==
  /\ At(c, "request-payout", "erp_addDoc")
  /\ LET arg == calls[c].arg
     IN IF fails
          THEN Throw(c) /\ UNCHANGED ambassador_payouts
          ELSE /\ ambassador_payouts' = Append(ambassador_payouts,
                    [exists |-> TRUE, ambassadorId |-> arg.id,
                     connectedAccountId |-> arg.connectedAccountId,
                     amount |-> calls[c].loc.balance, status |-> "pending",
                     transferId |-> Null])
               /\ Respond(c, 200, "Payout request submitted")
  /\ UNCHANGED <<users, promoCodes, referralCodes, partners, ambassadors,
                 partnerTracking, referralTracking, partnerPayouts, ambassadorPayouts,
                 transfers, now, payout_requests, ncalls, approvedOk>>

\* history, in arg.approved: the requests already approved when the call begins
EarlyApprovePayoutStart(c, requestId) ==
  /\ LET arg == [requestId |-> requestId,
                 approved |-> {r \in DOMAIN ambassador_payouts :
                                 ambassador_payouts[r].status = "approved"}]
     IN IF requestId = 0
          THEN BeginDone(c, "approve-payout", "ambassador", arg, 400, "requestId is required")
          ELSE Begin(c, "approve-payout", "ambassador", arg, "eap_getRequest")
  /\ DbUnchanged

\* 1. fetch the request from "ambassador_payouts"; it must be pending
EarlyApprovePayoutGetRequest(c, fails) ==
  /\ At(c, "approve-payout", "eap_getRequest")
  /\ LET request == GetEarlyRequest(ambassador_payouts, calls[c].arg.requestId)
     IN IF fails THEN Throw(c)
        ELSE IF ~request.exists THEN Respond(c, 404, "Request not found")
        ELSE IF request.status # "pending" THEN Respond(c, 400, "Request already processed")
        ELSE Goto(c, "eap_getAmbassador", [request |-> request])
  /\ UNCHANGED ncalls
  /\ DbUnchanged

\* 2.-3. fetch the ambassador; the payout is commissionEarned * 0.10 and
\* amountInCents is Math.round(payoutAmount * 100)
EarlyApprovePayoutGetAmbassador(c, fails) ==
  /\ At(c, "approve-payout", "eap_getAmbassador")
  /\ LET request == calls[c].loc.request
         d == ambassadors[request.ambassadorId]
     IN IF fails THEN Throw(c)
        ELSE IF ~d.exists THEN Respond(c, 404, "Ambassador not found")
        ELSE IF d.commissionEarned <= 0
          THEN Respond(c, 400, "No balance available for payout")
        ELSE Goto(c, "eap_transfer",
                  [request |-> request,
                   amountInCents |-> (d.commissionEarned + 50) \div 100])
  /\ UNCHANGED ncalls
  /\ DbUnchanged

\* 4. stripe.transfers.create
EarlyApprovePayoutTransfer(c, fails) ==
  /\ At(c, "approve-payout", "eap_transfer")
  /\ LET loc == calls[c].loc
     IN IF fails
          THEN Throw(c) /\ UNCHANGED transfers
          ELSE /\ transfers' = Append(transfers,
                    [amount |-> loc.amountInCents,
                     destination |-> loc.request.connectedAccountId,
                     role |-> "ambassador_payouts",
                     requestId |-> calls[c].arg.requestId])
               /\ Goto(c, "eap_updateRequest",
                       [request |-> loc.request, amountInCents |-> loc.amountInCents,
                        transferId |-> Len(transfers) + 1])
  /\ UNCHANGED <<users, promoCodes, referralCodes, partners, ambassadors,
                 partnerTracking, referralTracking, partnerPayouts, ambassadorPayouts,
                 now, ambassador_payouts, payout_requests, ncalls, approvedOk>>

\* 5.-6. mark the request approved and answer; the ambassador is not written
EarlyApprovePayoutUpdateRequest(c, fails) ==
  /\ At(c, "approve-payout", "eap_updateRequest")
  /\ LET rid == calls[c].arg.requestId
     IN IF fails
          THEN Throw(c) /\ UNCHANGED ambassador_payouts
          ELSE /\ ambassador_payouts' = [ambassador_payouts EXCEPT ![rid] =
                    [@ EXCEPT !.status = "approved",
                              !.transferId = calls[c].loc.transferId]]
               /\ Respond(c, 200, "success")
  /\ UNCHANGED <<users, promoCodes, referralCodes, partners, ambassadors,
                 partnerTracking, referralTracking, partnerPayouts, ambassadorPayouts,
                 transfers, now, payout_requests, ncalls, approvedOk>>

EarlyCancelPayoutStart(c, requestId) ==
  /\ IF requestId = 0
       THEN BeginDone(c, "cancel-payout", "ambassador", [requestId |-> requestId],
                      400, "requestId is required")
       ELSE Begin(c, "cancel-payout", "ambassador", [requestId |-> requestId],
                  "ecp_getRequest")
  /\ DbUnchanged

\* 1.-2. fetch the request from "payout_requests"; it must be pending
EarlyCancelPayoutGetRequest(c, fails) ==
  /\ At(c, "cancel-payout", "ecp_getRequest")
  /\ LET request == GetEarlyRequest(payout_requests, calls[c].arg.requestId)
     IN IF fails THEN Throw(c)
        ELSE IF ~request.exists THEN Respond(c, 404, "Request not found")
        ELSE IF request.status # "pending" THEN Respond(c, 400, "Request already processed")
        ELSE Goto(c, "ecp_update", [request |-> request])
  /\ UNCHANGED ncalls
  /\ DbUnchanged

\* 3.-4. mark the request in "payout_requests" cancelled and answer
EarlyCancelPayoutUpdate(c, fails) ==
  /\ At(c, "cancel-payout", "ecp_update")
  /\ LET rid == calls[c].arg.requestId
     IN IF fails \/ rid \notin DOMAIN payout_requests
          THEN Throw(c) /\ UNCHANGED payout_requests
          ELSE /\ payout_requests' = [payout_requests EXCEPT ![rid].status = "cancelled"]
               /\ Respond(c, 200, "Payout request cancelled")
  /\ UNCHANGED <<users, promoCodes, referralCodes, partners, ambassadors,
                 partnerTracking, referralTracking, partnerPayouts, ambassadorPayouts,
                 transfers, now, ambassador_payouts, ncalls, approvedOk>>

-----------------------------------------------------------------------------
(* POST /webhook *)

EventTypes == {"account.updated", "account.application.deauthorized", "other"}

\* the event: its type, the account's metadata and id, and for account.updated
\* the account's details_submitted and payouts_enabled
Event(type, role, userId, account, detailsSubmitted, payoutsEnabled) ==
  [type |-> type, userId |-> userId, account |-> account,
   onboardingCompleted |-> type = "account.updated" /\ detailsSubmitted,
   payoutsEnabled |-> type = "account.updated" /\ payoutsEnabled]

\* stripe.webhooks.constructEvent and the switch on event.type
WebhookStart(c, valid, role, event) ==
  /\ IF ~valid
       THEN BeginDone(c, "webhook", role, event, 400, "Webhook Error")
       ELSE IF event.type = "other" \/ event.userId = Missing
         THEN BeginDone(c, "webhook", role, event, 200, "received")
       ELSE Begin(c, "webhook", role, event, "wh_updateDoc")
  /\ DbUnchanged

\* updateDoc(userRef, { stripe: stripeStatus }), not awaited: a rejection is
\* only logged.  The activation stays until the write has settled.
WebhookUpdateDoc(c, fails) ==
  /\ At(c, "webhook", "wh_updateDoc")
  /\ LET role == calls[c].role
         event == calls[c].arg
     IN IF fails \/ ~Referrers(role)[event.userId].exists
          THEN UNCHANGED <<partners, ambassadors>>
          ELSE SetReferrers(role, [Referrers(role) EXCEPT ![event.userId] =
                 [@ EXCEPT !.connectAccountId = event.account,
                           !.onboardingCompleted = event.onboardingCompleted,
                           !.payoutsEnabled = event.payoutsEnabled]])
  /\ Respond(c, 200, "received")
  /\ UNCHANGED <<users, promoCodes, referralCodes, partnerTracking, referralTracking,
                 partnerPayouts, ambassadorPayouts, transfers, now,
                 ambassador_payouts, payout_requests, ncalls, approvedOk>>

-----------------------------------------------------------------------------
(* DELETE /api/partner/:id *)

DeletePartnerStart(c, partnerId) ==
  /\ Begin(c, "deletePartner", "partner", [partnerId |-> partnerId], "dp_getPartner")
  /\ DbUnchanged

\* getDoc(docRef): the partner must exist
DeletePartnerGetPartner(c, fails) ==
  /\ At(c, "deletePartner", "dp_getPartner")
  /\ IF fails THEN Throw(c)
     ELSE IF ~partners[calls[c].arg.partnerId].exists THEN Respond(c, 404, "Partner not found")
     ELSE Goto(c, "dp_delete", <<>>)
  /\ UNCHANGED ncalls
  /\ DbUnchanged

\* deleteDoc(docRef)
DeletePartnerDelete(c, fails) ==
  /\ At(c, "deletePartner", "dp_delete")
  /\ IF fails
       THEN Throw(c) /\ UNCHANGED partners
       ELSE /\ partners' = [partners EXCEPT ![calls[c].arg.partnerId] = NoDoc]
            /\ Respond(c, 200, "Partner deleted successfully")
  /\ UNCHANGED <<users, promoCodes, referralCodes, ambassadors, partnerTracking,
                 referralTracking, partnerPayouts, ambassadorPayouts, transfers,
                 now, ambassador_payouts, payout_requests, ncalls, approvedOk>>

-----------------------------------------------------------------------------
(* DELETE /api/promoCode/:id *)

DeletePromoStart(c, id) ==
  /\ Begin(c, "deletePromo", "partner", [id |-> id], "dc_delete")
  /\ DbUnchanged

\* deleteDoc(promoRef), which also succeeds when there is no such document
DeletePromoDelete(c, fails) ==
  /\ At(c, "deletePromo", "dc_delete")
  /\ LET id == calls[c].arg.id
     IN IF fails
          THEN Throw(c) /\ UNCHANGED promoCodes
          ELSE /\ promoCodes' = IF id \in DOMAIN promoCodes
                                  THEN [promoCodes EXCEPT ![id] = NoDoc]
                                  ELSE promoCodes
               /\ Respond(c, 200, "Promo code deleted successfully")
  /\ UNCHANGED <<users, referralCodes, partners, ambassadors, partnerTracking,
                 referralTracking, partnerPayouts, ambassadorPayouts, transfers,
                 now, ambassador_payouts, payout_requests, ncalls, approvedOk>>

-----------------------------------------------------------------------------
(* POST /api/partner/submitApplication *)

\* userId.slice(-4).toUpperCase()
Suffix(userId) ==
  IF userId = "u1" THEN "U1" ELSE IF userId = "u2" THEN "U2" ELSE "BODY"

\* `PRM${userId.slice(-4).toUpperCase()}${Math.floor(Math.random() * 1000)}`
PartnerCode(userId, n) == "PRM" \o Suffix(userId) \o ToString(n)

\* `AMB${userId.slice(-4).toUpperCase()}`
AmbassadorCode(userId) == "AMB" \o Suffix(userId)

\* getDocs(query(collection(db, "promoCodes"), where("promoCode", "==", finalCode)))
PromoCodeTaken(finalCode) ==
  \E i \in DOMAIN promoCodes : promoCodes[i].exists /\ promoCodes[i].promoCode = finalCode

\* getDocs(query(collection(db, "referralCodes"), where("referralCode", "==", finalCode)))
ReferralCodeTaken(finalCode) ==
  \E i \in DOMAIN referralCodes :
    referralCodes[i].exists /\ referralCodes[i].referralCode = finalCode

\* the referrer document of the user is pending or approved
Applied(referrers, userId) ==
  /\ userId \in AllIds
  /\ referrers[userId].exists
  /\ referrers[userId].status \in {"pending", "approved"}

\* doc(db, "users", undefined) throws inside the try block; applied records,
\* for the properties, whether the user was a pending or approved partner when
\* the call arrived
PartnerSubmitStart(c, userId, promoCode, status, commissionRate, discountRate) ==
  /\ LET arg == [userId |-> userId, promoCode |-> promoCode, status |-> status,
                 commissionRate |-> commissionRate, discountRate |-> discountRate,
                 applied |-> Applied(partners, userId)]
     IN IF userId = Missing
          THEN BeginDone(c, "partnerSubmit", "partner", arg, 500, "error")
          ELSE Begin(c, "partnerSubmit", "partner", arg, "ps_getUser")
  /\ DbUnchanged

\* Step 1: the user must exist
PartnerSubmitGetUser(c, fails) ==
  /\ At(c, "partnerSubmit", "ps_getUser")
  /\ IF fails THEN Throw(c)
     ELSE IF ~users[calls[c].arg.userId].exists THEN Respond(c, 400, "User does not exist")
     ELSE Goto(c, "ps_generate", [finalCode |-> calls[c].arg.promoCode, attempts |-> 0])
  /\ UNCHANGED ncalls
  /\ DbUnchanged

\* Step 2: one pass of the while loop, around its uniqueness query
PartnerSubmitGenerate(c, fails, n) ==
  /\ At(c, "partnerSubmit", "ps_generate")
  /\ LET loc == calls[c].loc
         finalCode == IF loc.finalCode = Missing
                        THEN PartnerCode(calls[c].arg.userId, n) ELSE loc.finalCode
         attempts == loc.attempts + 1
     IN IF fails THEN Throw(c)
        ELSE IF ~PromoCodeTaken(finalCode)
          THEN Goto(c, "ps_addPromo", [finalCode |-> finalCode, attempts |-> attempts])
        ELSE IF attempts < MaxAttempts
          THEN Goto(c, "ps_generate", [finalCode |-> Missing, attempts |-> attempts])
        ELSE Respond(c, 400, "Failed to generate unique promo code. Try again.")
  /\ UNCHANGED ncalls
  /\ DbUnchanged

\* Step 3: addDoc(collection(db, "promoCodes"), promoData)
PartnerSubmitAddPromo(c, fails) ==
  /\ At(c, "partnerSubmit", "ps_addPromo")
  /\ LET arg == calls[c].arg
         loc == calls[c].loc
     IN IF fails
          THEN Throw(c) /\ UNCHANGED promoCodes
          ELSE /\ promoCodes' = Append(promoCodes,
                    [exists |-> TRUE, partnerId |-> arg.userId, promoCode |-> loc.finalCode,
                     code |-> Missing, status |-> "pending", validFrom |-> Null,
                     validTo |-> Null, discountRate |-> arg.discountRate,
                     usageLimit |-> DefaultUsageLimit, timesUsed |-> 0])
               /\ Goto(c, "ps_setPartner",
                       [finalCode |-> loc.finalCode, promoId |-> Len(promoCodes) + 1])
  /\ UNCHANGED <<users, referralCodes, partners, ambassadors, partnerTracking,
                 referralTracking, partnerPayouts, ambassadorPayouts, transfers,
                 now, ambassador_payouts, payout_requests, ncalls, approvedOk>>

\* Step 4: setDoc(partnerRef, ...), which replaces the whole document
PartnerSubmitSetPartner(c, fails) ==
  /\ At(c, "partnerSubmit", "ps_setPartner")
  /\ LET arg == calls[c].arg
         loc == calls[c].loc
     IN IF fails
          THEN Throw(c) /\ UNCHANGED partners
          ELSE /\ partners' = [partners EXCEPT ![arg.userId] =
                    [exists |-> TRUE, userId |-> arg.userId,
                     status |-> IF arg.status = Missing THEN "pending" ELSE arg.status,
                     commissionRate |-> arg.commissionRate,
                     discountRate |-> arg.discountRate,
                     totalPartnerRevenue |-> 0, availableBalance |-> 0,
                     totalDiscountGiven |-> 0, timesUsed |-> Null, leftPromo |-> Null,
                     totalPromo |-> Null, promoCode |-> loc.finalCode,
                     promoId |-> loc.promoId, promoCodeValidTo |-> Null,
                     connectAccountId |-> NoAccount,
                     onboardingCompleted |-> FALSE, payoutsEnabled |-> FALSE]]
               /\ Goto(c, "ps_updateUser", loc)
  /\ UNCHANGED <<users, promoCodes, referralCodes, ambassadors, partnerTracking,
                 referralTracking, partnerPayouts, ambassadorPayouts, transfers,
                 now, ambassador_payouts, payout_requests, ncalls, approvedOk>>

\* Step 5: updateDoc(userRef, { partnerApplication: ... })
PartnerSubmitUpdateUser(c, fails) ==
  /\ At(c, "partnerSubmit", "ps_updateUser")
  /\ LET arg == calls[c].arg
     IN IF fails \/ ~users[arg.userId].exists
          THEN Throw(c) /\ UNCHANGED users
          ELSE /\ users' = [users EXCEPT ![arg.userId].partnerApplication =
                              IF arg.status = Missing THEN "pending" ELSE arg.status]
               /\ Respond(c, 201, "Partner created successfully (awaiting admin approval)")
  /\ UNCHANGED <<promoCodes, referralCodes, partners, ambassadors, partnerTracking,
                 referralTracking, partnerPayouts, ambassadorPayouts, transfers,
                 now, ambassador_payouts, payout_requests, ncalls, approvedOk>>

-----------------------------------------------------------------------------
(* POST /api/ambassador/submitApplication *)

\* 1. userId (like every other required field) must be present
AmbassadorSubmitStart(c, userId, referralCode) ==
  /\ LET arg == [userId |-> userId, referralCode |-> referralCode,
                 applied |-> Applied(ambassadors, userId)]
     IN IF userId = Missing
          THEN BeginDone(c, "ambassadorSubmit", "ambassador", arg, 400, "Missing required fields")
          ELSE Begin(c, "ambassadorSubmit", "ambassador", arg, "as_getAmbassador")
  /\ DbUnchanged

\* 2. no pending or approved ambassador profile may exist
AmbassadorSubmitGetAmbassador(c, fails) ==
  /\ At(c, "ambassadorSubmit", "as_getAmbassador")
  /\ LET existing == ambassadors[calls[c].arg.userId]
     IN IF fails THEN Throw(c)
        ELSE IF existing.exists /\ existing.status \in {"pending", "approved"}
          THEN Respond(c, 400, "You already have a pending or approved ambassador profile.")
        ELSE Goto(c, "as_generate",
                  [finalCode |-> calls[c].arg.referralCode, queries |-> 0])
  /\ UNCHANGED ncalls
  /\ DbUnchanged

\* 3. one pass of the while loop, around its uniqueness query; the loop has
\* no bound and the generated candidate is the same in every pass.  queries
\* counts the passes made; the model follows the loop for MaxQueries passes.
AmbassadorSubmitGenerate(c, fails) ==
  /\ At(c, "ambassadorSubmit", "as_generate")
  /\ calls[c].loc.queries < MaxQueries
  /\ LET arg == calls[c].arg
         loc == calls[c].loc
         finalCode == IF loc.finalCode = Missing THEN AmbassadorCode(arg.userId)
                      ELSE loc.finalCode
         queries == loc.queries + 1
     IN IF fails THEN Throw(c)
        ELSE IF ~ReferralCodeTaken(finalCode)
          THEN Goto(c, "as_addReferral", [finalCode |-> finalCode, queries |-> queries])
        ELSE IF arg.referralCode # Missing
          THEN Respond(c, 400, "Referral code already exists. Please choose another one.")
        ELSE Goto(c, "as_generate", [finalCode |-> Missing, queries |-> queries])
  /\ UNCHANGED ncalls
  /\ DbUnchanged

\* 4. addDoc(collection(db, "referralCodes"), referralData)
AmbassadorSubmitAddReferral(c, fails) ==
  /\ At(c, "ambassadorSubmit", "as_addReferral")
  /\ LET arg == calls[c].arg
         loc == calls[c].loc
     IN IF fails
          THEN Throw(c) /\ UNCHANGED referralCodes
          ELSE /\ referralCodes' = Append(referralCodes,
                    [exists |-> TRUE, ambassadorId |-> arg.userId,
                     referralCode |-> loc.finalCode, status |-> "pending",
                     validFrom |-> Null, validTo |-> Null,
                     usageLimit |-> DefaultUsageLimit, timesUsed |-> 0])
               /\ Goto(c, "as_setAmbassador",
                       [finalCode |-> loc.finalCode, referralCodeId |-> Len(referralCodes) + 1])
  /\ UNCHANGED <<users, promoCodes, partners, ambassadors, partnerTracking,
                 referralTracking, partnerPayouts, ambassadorPayouts, transfers,
                 now, ambassador_payouts, payout_requests, ncalls, approvedOk>>

\* the fields of a profile that setDoc(..., { merge: true }) does not write
NewAmbassador ==
  [exists |-> TRUE, userId |-> Missing, status |-> "pending", commissionRate |-> Null,
   totalAmbassadorRevenue |-> 0, availableBalance |-> 0, commissionEarned |-> 0,
   totalReferrals |-> 0, referralCode |-> Missing, referralCodeId |-> Null,
   referralCodeValidTo |-> Null, connectAccountId |-> NoAccount,
   onboardingCompleted |-> FALSE, payoutsEnabled |-> FALSE]

\* 5. setDoc(ambassadorRef, ambassadorData, { merge: true })
AmbassadorSubmitSetAmbassador(c, fails) ==
  /\ At(c, "ambassadorSubmit", "as_setAmbassador")
  /\ LET arg == calls[c].arg
         loc == calls[c].loc
         old == IF ambassadors[arg.userId].exists THEN ambassadors[arg.userId]
                ELSE NewAmbassador
     IN IF fails
          THEN Throw(c) /\ UNCHANGED ambassadors
          ELSE /\ ambassadors' = [ambassadors EXCEPT ![arg.userId] =
                    [old EXCEPT !.userId = arg.userId, !.status = "pending",
                                !.referralCode = loc.finalCode,
                                !.referralCodeId = loc.referralCodeId,
                                !.commissionRate = AmbassadorFallbackRate,
                                !.totalReferrals = 0, !.availableBalance = 0]]
               /\ Goto(c, "as_updateUser", loc)
  /\ UNCHANGED <<users, promoCodes, referralCodes, partners, partnerTracking,
                 referralTracking, partnerPayouts, ambassadorPayouts, transfers,
                 now, ambassador_payouts, payout_requests, ncalls, approvedOk>>

\* 6.-7. updateDoc(userRef, { ambassadorApplication: ... }), which rejects when
\* the user document does not exist
AmbassadorSubmitUpdateUser(c, fails) ==
  /\ At(c, "ambassadorSubmit", "as_updateUser")
  /\ LET arg == calls[c].arg
     IN IF fails \/ ~users[arg.userId].exists
          THEN Throw(c) /\ UNCHANGED users
          ELSE /\ users' = [users EXCEPT ![arg.userId].ambassadorApplication = "pending"]
               /\ Respond(c, 201, "Your application has been submitted successfully!")
  /\ UNCHANGED <<promoCodes, referralCodes, partners, ambassadors, partnerTracking,
                 referralTracking, partnerPayouts, ambassadorPayouts, transfers,
                 now, ambassador_payouts, payout_requests, ncalls, approvedOk>>

-----------------------------------------------------------------------------
(* POST /api/partner/:partnerId/updateStatus *)

PartnerStatusStart(c, partnerId, newStatus) ==
  /\ LET arg == [partnerId |-> partnerId, newStatus |-> newStatus]
     IN IF newStatus = Missing
          THEN BeginDone(c, "partnerStatus", "partner", arg, 400, "Missing newStatus")
          ELSE Begin(c, "partnerStatus", "partner", arg, "pst_getPartner")
  /\ DbUnchanged

\* 1. fetch the partner; 2. branch on newStatus; validFrom is new Date() and
\* validTo is validFrom + 100 days
PartnerStatusGetPartner(c, fails) ==
  /\ At(c, "partnerStatus", "pst_getPartner")
  /\ LET arg == calls[c].arg
         partnerData == partners[arg.partnerId]
         loc == [partnerData |-> partnerData, validFrom |-> now,
                 validTo |-> now + WindowDays, hasPromoData |-> FALSE,
                 existingPromo |-> NoDoc, setValidFrom |-> FALSE,
                 setValidTo |-> FALSE]
     IN IF fails THEN Throw(c)
        ELSE IF ~partnerData.exists THEN Respond(c, 404, "Partner not found")
        ELSE IF arg.newStatus = "approved" /\ partnerData.promoCode # Missing
          THEN IF partnerData.promoId # Null
                 THEN Goto(c, "pst_getPromo", loc)
                 ELSE Goto(c, "pst_updatePartner", loc)
        ELSE IF arg.newStatus = "declined"
          THEN IF partnerData.promoId = Null
                 THEN Throw(c)
                 ELSE Goto(c, "pst_declinePartner", loc)
        ELSE Goto(c, "pst_setStatus", loc)
  /\ UNCHANGED ncalls
  /\ DbUnchanged

\* getDoc(promoRef) with promoData never given a validity window
PartnerStatusGetPromoKeeping(c, fails) ==
  /\ At(c, "partnerStatus", "pst_getPromo")
  /\ LET loc == calls[c].loc
         promoId == loc.partnerData.promoId
         existingPromo == IF promoId \in DOMAIN promoCodes THEN promoCodes[promoId] ELSE NoDoc
     IN IF fails THEN Throw(c)
        ELSE IF existingPromo.exists
          THEN Goto(c, "pst_updatePromo",
                    [loc EXCEPT !.hasPromoData = TRUE, !.existingPromo = existingPromo])
        ELSE Goto(c, "pst_updatePartner", loc)
  /\ UNCHANGED ncalls
  /\ DbUnchanged

\* getDoc(promoRef): validFrom and validTo go into promoData only if the
\* promo code read here has none
PartnerStatusGetPromo(c, fails) ==
  /\ At(c, "partnerStatus", "pst_getPromo")
  /\ LET loc == calls[c].loc
         promoId == loc.partnerData.promoId
         existingPromo == IF promoId \in DOMAIN promoCodes THEN promoCodes[promoId] ELSE NoDoc
     IN IF fails THEN Throw(c)
        ELSE IF existingPromo.exists
          THEN Goto(c, "pst_updatePromo",
                    [loc EXCEPT !.hasPromoData = TRUE,
                                !.existingPromo = existingPromo,
                                !.setValidFrom = (existingPromo.validFrom = Null),
                                !.setValidTo = (existingPromo.validTo = Null)])
        ELSE Goto(c, "pst_updatePartner", loc)
  /\ UNCHANGED ncalls
  /\ DbUnchanged

\* updateDoc(promoRef, promoData)
PartnerStatusUpdatePromo(c, fails) ==
  /\ At(c, "partnerStatus", "pst_updatePromo")
  /\ LET loc == calls[c].loc
         promoId == loc.partnerData.promoId
     IN IF fails
          THEN Throw(c) /\ UNCHANGED promoCodes
          ELSE /\ promoCodes' = [promoCodes EXCEPT ![promoId] =
                    [@ EXCEPT !.code = loc.partnerData.promoCode,
                              !.status = "active",
                              !.validFrom = IF loc.setValidFrom THEN loc.validFrom ELSE @,
                              !.validTo = IF loc.setValidTo THEN loc.validTo ELSE @]]
               /\ Goto(c, "pst_updatePartner", loc)
  /\ UNCHANGED <<users, referralCodes, partners, ambassadors, partnerTracking,
                 referralTracking, partnerPayouts, ambassadorPayouts, transfers,
                 now, ambassador_payouts, payout_requests, ncalls, approvedOk>>

\* updateDoc(partnerRef, { status: "approved", promoCode, promoCodeValidTo: validTo })
PartnerStatusUpdatePartner(c, fails) ==
  /\ At(c, "partnerStatus", "pst_updatePartner")
  /\ LET loc == calls[c].loc
         partnerId == calls[c].arg.partnerId
     IN IF fails \/ ~partners[partnerId].exists
          THEN Throw(c) /\ UNCHANGED partners
          ELSE /\ partners' = [partners EXCEPT ![partnerId] =
                    [@ EXCEPT !.status = "approved",
                              !.promoCode = loc.partnerData.promoCode,
                              !.promoCodeValidTo = loc.validTo]]
               /\ Goto(c, "pst_getUser", loc)
  /\ UNCHANGED <<users, promoCodes, referralCodes, ambassadors, partnerTracking,
                 referralTracking, partnerPayouts, ambassadorPayouts, transfers,
                 now, ambassador_payouts, payout_requests, ncalls, approvedOk>>

\* declined: updateDoc(partnerRef, { status: "declined" })
PartnerStatusDeclinePartner(c, fails) ==
  /\ At(c, "partnerStatus", "pst_declinePartner")
  /\ LET partnerId == calls[c].arg.partnerId
     IN IF fails \/ ~partners[partnerId].exists
          THEN Throw(c) /\ UNCHANGED partners
          ELSE /\ partners' = [partners EXCEPT ![partnerId].status = "declined"]
               /\ Goto(c, "pst_declinePromo", calls[c].loc)
  /\ UNCHANGED <<users, promoCodes, referralCodes, ambassadors, partnerTracking,
                 referralTracking, partnerPayouts, ambassadorPayouts, transfers,
                 now, ambassador_payouts, payout_requests, ncalls, approvedOk>>

\* declined, with the validity window cleared along with the status
PartnerStatusDeclinePromoClearing(c, fails) ==
  /\ At(c, "partnerStatus", "pst_declinePromo")
  /\ LET promoId == calls[c].loc.partnerData.promoId
     IN IF fails \/ promoId \notin DOMAIN promoCodes
          THEN Throw(c) /\ UNCHANGED promoCodes
          ELSE /\ promoCodes' = [promoCodes EXCEPT ![promoId] =
                    [@ EXCEPT !.status = "inactive", !.validFrom = Null,
                              !.validTo = Null]]
               /\ Goto(c, "pst_getUser", calls[c].loc)
  /\ UNCHANGED <<users, referralCodes, partners, ambassadors, partnerTracking,
                 referralTracking, partnerPayouts, ambassadorPayouts, transfers,
                 now, ambassador_payouts, payout_requests, ncalls, approvedOk>>

\* declined: updateDoc(promoRef, { status: "inactive" })
PartnerStatusDeclinePromo(c, fails) ==
  /\ At(c, "partnerStatus", "pst_declinePromo")
  /\ LET promoId == calls[c].loc.partnerData.promoId
     IN IF fails \/ promoId \notin DOMAIN promoCodes
          THEN Throw(c) /\ UNCHANGED promoCodes
          ELSE /\ promoCodes' = [promoCodes EXCEPT ![promoId].status = "inactive"]
               /\ Goto(c, "pst_getUser", calls[c].loc)
  /\ UNCHANGED <<users, referralCodes, partners, ambassadors, partnerTracking,
                 referralTracking, partnerPayouts, ambassadorPayouts, transfers,
                 now, ambassador_payouts, payout_requests, ncalls, approvedOk>>

\* any other status: updateDoc(partnerRef, { status: newStatus })
PartnerStatusSetStatus(c, fails) ==
  /\ At(c, "partnerStatus", "pst_setStatus")
  /\ LET arg == calls[c].arg
     IN IF fails \/ ~partners[arg.partnerId].exists
          THEN Throw(c) /\ UNCHANGED partners
          ELSE /\ partners' = [partners EXCEPT ![arg.partnerId].status = arg.newStatus]
               /\ Goto(c, "pst_getUser", calls[c].loc)
  /\ UNCHANGED <<users, promoCodes, referralCodes, ambassadors, partnerTracking,
                 referralTracking, partnerPayouts, ambassadorPayouts, transfers,
                 now, ambassador_payouts, payout_requests, ncalls, approvedOk>>

PartnerStatusOk(newStatus) ==
  IF newStatus = "approved" THEN "Partner approved, promo updated, user updated & email sent"
  ELSE IF newStatus = "declined" THEN "Partner declined, user updated & email sent"
  ELSE "Partner status updated"

\* 3. getDoc(userRef); without a user document nothing is mirrored or mailed
PartnerStatusGetUser(c, fails) ==
  /\ At(c, "partnerStatus", "pst_getUser")
  /\ LET userId == calls[c].loc.partnerData.userId
     IN IF fails THEN Throw(c)
        ELSE IF users[userId].exists THEN Goto(c, "pst_updateUser", calls[c].loc)
        ELSE Respond(c, 200, PartnerStatusOk(calls[c].arg.newStatus))
  /\ UNCHANGED ncalls
  /\ DbUnchanged

\* 3. updateDoc(userRef, { isPartner, partnerApplication: { status: newStatus } })
PartnerStatusUpdateUser(c, fails) ==
  /\ At(c, "partnerStatus", "pst_updateUser")
  /\ LET arg == calls[c].arg
         loc == calls[c].loc
         userId == loc.partnerData.userId
     IN IF fails \/ ~users[userId].exists
          THEN Throw(c) /\ UNCHANGED users
          ELSE /\ users' = [users EXCEPT ![userId].partnerApplication = arg.newStatus]
               /\ IF (arg.newStatus = "approved" /\ loc.hasPromoData)
                       \/ arg.newStatus = "declined"
                    THEN Goto(c, "pst_sendMail", loc)
                    ELSE Respond(c, 200, PartnerStatusOk(arg.newStatus))
  /\ UNCHANGED <<promoCodes, referralCodes, partners, ambassadors, partnerTracking,
                 referralTracking, partnerPayouts, ambassadorPayouts, transfers,
                 now, ambassador_payouts, payout_requests, ncalls, approvedOk>>

\* 4. transporter.sendMail; 5. respond
PartnerStatusSendMail(c, fails) ==
  /\ At(c, "partnerStatus", "pst_sendMail")
  /\ IF fails THEN Throw(c) ELSE Respond(c, 200, PartnerStatusOk(calls[c].arg.newStatus))
  /\ UNCHANGED ncalls
  /\ DbUnchanged

-----------------------------------------------------------------------------
(* POST /api/ambassador/updateStatus *)

AmbassadorStatusStart(c, userId, newStatus) ==
  /\ LET arg == [userId |-> userId, newStatus |-> newStatus]
     IN IF userId = Missing \/ newStatus = Missing
          THEN BeginDone(c, "ambassadorStatus", "ambassador", arg, 400,
                         "Missing user ID or status")
          ELSE Begin(c, "ambassadorStatus", "ambassador", arg, "ast_getAmbassador")
  /\ DbUnchanged

\* 1. fetch the ambassador profile
AmbassadorStatusGetAmbassador(c, fails) ==
  /\ At(c, "ambassadorStatus", "ast_getAmbassador")
  /\ IF fails THEN Throw(c)
     ELSE IF ~ambassadors[calls[c].arg.userId].exists
       THEN Respond(c, 404, "Ambassador profile not found.")
     ELSE Goto(c, "ast_findReferral", <<>>)
  /\ UNCHANGED ncalls
  /\ DbUnchanged

\* query(collection(db, "referralCodes"), where("ambassadorId", "==", userId))
ReferralsOf(userId) ==
  {i \in DOMAIN referralCodes :
     referralCodes[i].exists /\ referralCodes[i].ambassadorId = userId}

FinalWindowRenewed(referralData, today) ==
  [validFrom |-> today, validTo |-> today + WindowDays]

\* the window updateStatus("approved") writes: the one read, unless it is
\* missing or expired
FinalWindow(referralData, today) ==
  IF referralData.validFrom = Null \/ referralData.validTo = Null
       \/ referralData.validTo < today
    THEN [validFrom |-> today, validTo |-> today + WindowDays]
    ELSE [validFrom |-> referralData.validFrom, validTo |-> referralData.validTo]

\* 2. the referral code is docs[0] of the query, which is ordered by the
\* generated document ids: any of the ambassador's codes
AmbassadorStatusFindReferral(c, fails) ==
  /\ At(c, "ambassadorStatus", "ast_findReferral")
  /\ LET arg == calls[c].arg
         referralSnap == ReferralsOf(arg.userId)
         none == [updatedReferralCode |-> Missing, updatedReferralId |-> Null,
                  validTo |-> now + WindowDays, referralData |-> NoDoc,
                  final |-> <<>>]
     IN IF fails THEN Throw(c)
        ELSE IF referralSnap = {} THEN Goto(c, "ast_updateAmbassador", none)
        ELSE \E referralId \in referralSnap :
          LET referralData == referralCodes[referralId]
              loc == [none EXCEPT !.updatedReferralCode = referralData.referralCode,
                                  !.updatedReferralId = referralId,
                                  !.referralData = referralData,
                                  !.final = FinalWindow(referralData, now)]
          IN IF arg.newStatus = "approved" THEN Goto(c, "ast_updateReferral", loc)
             ELSE IF arg.newStatus = "declined" THEN Goto(c, "ast_declineReferral", loc)
             ELSE Goto(c, "ast_updateAmbassador", loc)
  /\ UNCHANGED ncalls
  /\ DbUnchanged

\* approved: updateDoc(referralRef, { status: "active", validFrom, validTo })
AmbassadorStatusUpdateReferral(c, fails) ==
  /\ At(c, "ambassadorStatus", "ast_updateReferral")
  /\ LET loc == calls[c].loc
     IN IF fails
          THEN Throw(c) /\ UNCHANGED referralCodes
          ELSE /\ referralCodes' = [referralCodes EXCEPT ![loc.updatedReferralId] =
                    [@ EXCEPT !.status = "active", !.validFrom = loc.final.validFrom,
                              !.validTo = loc.final.validTo]]
               /\ Goto(c, "ast_updateAmbassador", loc)
  /\ UNCHANGED <<users, promoCodes, partners, ambassadors, partnerTracking,
                 referralTracking, partnerPayouts, ambassadorPayouts, transfers,
                 now, ambassador_payouts, payout_requests, ncalls, approvedOk>>

\* declined: updateDoc(referralRef, { status: "inactive" })
AmbassadorStatusDeclineReferral(c, fails) ==
  /\ At(c, "ambassadorStatus", "ast_declineReferral")
  /\ LET loc == calls[c].loc
     IN IF fails
          THEN Throw(c) /\ UNCHANGED referralCodes
          ELSE /\ referralCodes' =
                    [referralCodes EXCEPT ![loc.updatedReferralId].status = "inactive"]
               /\ Goto(c, "ast_updateAmbassador", loc)
  /\ UNCHANGED <<users, promoCodes, partners, ambassadors, partnerTracking,
                 referralTracking, partnerPayouts, ambassadorPayouts, transfers,
                 now, ambassador_payouts, payout_requests, ncalls, approvedOk>>

\* 3. update the ambassador profile
AmbassadorStatusUpdateAmbassador(c, fails) ==
  /\ At(c, "ambassadorStatus", "ast_updateAmbassador")
  /\ LET arg == calls[c].arg
         loc == calls[c].loc
         old == ambassadors[arg.userId]
     IN IF fails \/ ~old.exists
          THEN Throw(c) /\ UNCHANGED ambassadors
          ELSE /\ ambassadors' = [ambassadors EXCEPT ![arg.userId] =
                    IF arg.newStatus = "approved"
                      THEN IF loc.updatedReferralCode # Missing
                             THEN [old EXCEPT !.status = "approved",
                                              !.referralCode = loc.updatedReferralCode,
                                              !.referralCodeId = loc.updatedReferralId,
                                              !.referralCodeValidTo = loc.validTo]
                             ELSE [old EXCEPT !.status = "approved"]
                    ELSE IF arg.newStatus = "declined"
                      THEN [old EXCEPT !.status = "declined",
                                       !.referralCode = loc.updatedReferralCode,
                                       !.referralCodeId = loc.updatedReferralId]
                    ELSE [old EXCEPT !.status = arg.newStatus]]
               /\ Goto(c, "ast_getUser", loc)
  /\ UNCHANGED <<users, promoCodes, referralCodes, partners, partnerTracking,
                 referralTracking, partnerPayouts, ambassadorPayouts, transfers,
                 now, ambassador_payouts, payout_requests, ncalls, approvedOk>>

\* 4. getDoc(userRef)
AmbassadorStatusGetUser(c, fails) ==
  /\ At(c, "ambassadorStatus", "ast_getUser")
  /\ IF fails THEN Throw(c)
     ELSE IF ~users[calls[c].arg.userId].exists THEN Respond(c, 404, "User not found.")
     ELSE Goto(c, "ast_updateUser", calls[c].loc)
  /\ UNCHANGED ncalls
  /\ DbUnchanged

\* 4. updateDoc(userRef, { isAmbassador, ambassadorApplication }); 5. respond
AmbassadorStatusUpdateUser(c, fails) ==
  /\ At(c, "ambassadorStatus", "ast_updateUser")
  /\ LET arg == calls[c].arg
     IN IF fails \/ ~users[arg.userId].exists
          THEN Throw(c) /\ UNCHANGED users
          ELSE /\ users' = [users EXCEPT ![arg.userId].ambassadorApplication = arg.newStatus]
               /\ Respond(c, 200,
                    IF arg.newStatus = "approved" THEN "Application approved."
                    ELSE IF arg.newStatus = "declined" THEN "Application declined."
                    ELSE "Ambassador status updated")
  /\ UNCHANGED <<promoCodes, referralCodes, partners, ambassadors, partnerTracking,
                 referralTracking, partnerPayouts, ambassadorPayouts, transfers,
                 now, ambassador_payouts, payout_requests, ncalls, approvedOk>>

\* time passes between two steps
Tick(days) ==
  /\ now' = now + days
  /\ UNCHANGED <<users, promoCodes, referralCodes, partners, ambassadors,
                 partnerTracking, referralTracking, partnerPayouts,
                 ambassadorPayouts, transfers, calls, ncalls, approvedOk,
                 ambassador_payouts, payout_requests>>

-----------------------------------------------------------------------------
(* The store after u1 has applied as partner and as ambassador, both        *)
(* applications have been approved at day 0 and a Stripe account has been   *)
(* linked to both profiles; u2 is a user who never applied.                 *)

UserDoc(partnerStatus, ambassadorStatus) ==
  [exists |-> TRUE, partnerApplication |-> partnerStatus,
   ambassadorApplication |-> ambassadorStatus]

\* the promo code document of submitApplication, after updateStatus(approved)
ActivePromo(id, promoCode, usageLimit) ==
  [exists |-> TRUE, partnerId |-> id, promoCode |-> promoCode, code |-> promoCode,
   status |-> "active", validFrom |-> 0, validTo |-> WindowDays, discountRate |-> 20,
   usageLimit |-> usageLimit, timesUsed |-> 0]

\* the referral code document of submitApplication, after updateStatus(approved)
ActiveReferral(id, referralCode, usageLimit) ==
  [exists |-> TRUE, ambassadorId |-> id, referralCode |-> referralCode,
   status |-> "active", validFrom |-> 0, validTo |-> WindowDays,
   usageLimit |-> usageLimit, timesUsed |-> 0]

\* the partner document of submitApplication (commissionRate sent as 30)
ApprovedPartner(id, promoCode, acct) ==
  [exists |-> TRUE, userId |-> id, status |-> "approved", commissionRate |-> 30,
   discountRate |-> 20, totalPartnerRevenue |-> 0, availableBalance |-> 0,
   totalDiscountGiven |-> 0, timesUsed |-> Null, leftPromo |-> Null, totalPromo |-> Null,
   promoCode |-> promoCode, promoId |-> 1, promoCodeValidTo |-> WindowDays,
   connectAccountId |-> acct,
   onboardingCompleted |-> TRUE, payoutsEnabled |-> TRUE]

\* the ambassador document of submitApplication
ApprovedAmbassador(id, referralCode, acct) ==
  [exists |-> TRUE, userId |-> id, status |-> "approved", commissionRate |-> 10,
   totalAmbassadorRevenue |-> 0, availableBalance |-> 0, commissionEarned |-> 0,
   totalReferrals |-> 0, referralCode |-> referralCode, referralCodeId |-> 1,
   referralCodeValidTo |-> WindowDays, connectAccountId |-> acct,
   onboardingCompleted |-> TRUE, payoutsEnabled |-> TRUE]

InitStore(promoLimit, referralLimit) ==
  /\ users = [u \in AllIds |->
       IF u = "u1" THEN UserDoc("approved", "approved")
       ELSE IF u = "u2" THEN UserDoc("none", "none") ELSE NoDoc]
  /\ promoCodes = <<ActivePromo("u1", "PRMU1", promoLimit)>>
  /\ referralCodes = <<ActiveReferral("u1", "AMBU1", referralLimit)>>
  /\ partners = [u \in AllIds |->
       IF u = "u1" THEN ApprovedPartner("u1", "PRMU1", "acct_u1") ELSE NoDoc]
  /\ ambassadors = [u \in AllIds |->
       IF u = "u1" THEN ApprovedAmbassador("u1", "AMBU1", "acct_u1") ELSE NoDoc]
  /\ partnerTracking = <<>>
  /\ referralTracking = <<>>
  /\ partnerPayouts = <<>>
  /\ ambassadorPayouts = <<>>
  /\ ambassador_payouts = <<>>
  /\ payout_requests = <<>>
  /\ transfers = <<>>
  /\ calls = [c \in Slots |-> Idle]
  /\ ncalls = 0
  /\ approvedOk = {}

-----------------------------------------------------------------------------
(* Payout: requestPayout, approvePayout and cancelPayout of both roles,     *)
(* with referral-code and promo-code redemptions crediting the balances.    *)

RequestIds == 0..2     \* 0: no requestId sent

InitPayout ==
  /\ InitStore(DefaultUsageLimit, DefaultUsageLimit)
  /\ now = 1

NextPayout ==
  \E c \in Slots :
    \/ ncalls < MaxPayoutCalls /\ \E role \in Roles, id \in {"u1", "u2", Missing}, acct \in Accounts :
         RequestPayoutStart(c, role, id, acct)
    \/ \E fails \in BOOLEAN : RequestPayoutGetReferrer(c, fails)
    \/ \E fails \in BOOLEAN : RequestPayoutAddDoc(c, fails)
    \/ ncalls < MaxPayoutCalls /\ \E role \in Roles, requestId \in RequestIds : ApprovePayoutStart(c, role, requestId)
    \/ \E fails \in BOOLEAN : ApprovePayoutGetRequest(c, fails)
    \/ \E fails \in BOOLEAN : ApprovePayoutGetReferrer(c, fails)
    \/ \E fails \in BOOLEAN : ApprovePayoutTransfer(c, fails)
    \/ \E fails \in BOOLEAN : ApprovePayoutUpdateRequest(c, fails)
    \/ \E fails \in BOOLEAN : ApprovePayoutUpdateReferrer(c, fails)
    \/ ncalls < MaxPayoutCalls /\ \E role \in Roles, requestId \in RequestIds : CancelPayoutStart(c, role, requestId)
    \/ \E fails \in BOOLEAN : CancelPayoutGetRequest(c, fails)
    \/ \E fails \in BOOLEAN : CancelPayoutUpdate(c, fails)
    \/ ncalls < MaxPayoutCalls /\ \E userId \in UserIds : UseReferralStart(c, "AMBU1", userId, 1504560)
    \/ UseReferralGetUser(c, FALSE)
    \/ UseReferralFindReferral(c, FALSE)
    \/ UseReferralPrevUsage(c, FALSE)
    \/ UseReferralGetAmbassador(c, FALSE)
    \/ UseReferralIncrement(c, FALSE)
    \/ UseReferralAddTracking(c, FALSE)
    \/ UseReferralUpdateAmbassador(c, FALSE)
    \/ ncalls < MaxPayoutCalls /\ UsePromoStart(c, "PRMU1", "u2", 100025)
    \/ UsePromoGetUser(c, FALSE)
    \/ UsePromoFindPromo(c, FALSE)
    \/ UsePromoGetPartner(c, FALSE)
    \/ UsePromoIncrement(c, FALSE)
    \/ UsePromoAddTracking(c, FALSE)
    \/ UsePromoGetPartner2(c, FALSE)
    \/ UsePromoUpdatePartner(c, FALSE)
    \/ Return(c)

SpecPayout == InitPayout /\ [][NextPayout]_vars

-----------------------------------------------------------------------------
(* Redemption: both use handlers, every await able to reject.               *)
(* submitApplication writes usageLimit 100; the handlers compare timesUsed  *)
(* with whatever limit the code document holds (or none), and the model     *)
(* draws a small limit so that it is reached.  The clock stands either      *)
(* inside the validity window or after its end.                             *)

MaxUsageLimit == 2

UsageLimits == {Null} \cup 1..MaxUsageLimit

\* the requests sent for a stored code: by either user with or without an
\* amount, by an unknown user, without a user id, and for an unknown code
UseInputs(code) ==
  {<<code, u, a>> : u \in UserIds, a \in {100000, Null}}
    \cup {<<code, NoUser, 100000>>, <<code, Missing, 100000>>, <<"NOPE", "u2", 100000>>}

InitRedeem ==
  /\ \E limit \in UsageLimits : InitStore(limit, limit)
  /\ now \in {1, WindowDays + 1}

NextRedeem ==
  \E c \in Slots :
    \/ /\ ncalls < MaxRedeemCalls
       /\ \E inp \in UseInputs("PRMU1") : UsePromoStart(c, inp[1], inp[2], inp[3])
    \/ \E fails \in BOOLEAN : UsePromoGetUser(c, fails)
    \/ \E fails \in BOOLEAN : UsePromoFindPromo(c, fails)
    \/ \E fails \in BOOLEAN : UsePromoGetPartner(c, fails)
    \/ \E fails \in BOOLEAN : UsePromoIncrement(c, fails)
    \/ \E fails \in BOOLEAN : UsePromoAddTracking(c, fails)
    \/ \E fails \in BOOLEAN : UsePromoGetPartner2(c, fails)
    \/ \E fails \in BOOLEAN : UsePromoUpdatePartner(c, fails)
    \/ /\ ncalls < MaxRedeemCalls
       /\ \E inp \in UseInputs("AMBU1") : UseReferralStart(c, inp[1], inp[2], inp[3])
    \/ \E fails \in BOOLEAN : UseReferralGetUser(c, fails)
    \/ \E fails \in BOOLEAN : UseReferralFindReferral(c, fails)
    \/ \E fails \in BOOLEAN : UseReferralPrevUsage(c, fails)
    \/ \E fails \in BOOLEAN : UseReferralGetAmbassador(c, fails)
    \/ \E fails \in BOOLEAN : UseReferralIncrement(c, fails)
    \/ \E fails \in BOOLEAN : UseReferralAddTracking(c, fails)
    \/ \E fails \in BOOLEAN : UseReferralUpdateAmbassador(c, fails)
    \/ ncalls < MaxRedeemCalls /\ ValidatePromoStart(c, "PRMU1")
    \/ \E fails \in BOOLEAN : ValidatePromoGetDocs(c, fails)
    \/ Return(c)

SpecRedeem == InitRedeem /\ [][NextRedeem]_vars

-----------------------------------------------------------------------------
(* Applications: both submitApplication handlers on a store in which u1 and *)
(* u2 are users who have not applied, every await able to reject.           *)

PreferredCodes == {Missing, "SAVE"}

InitSubmit ==
  /\ users = [u \in AllIds |-> IF u \in UserIds THEN UserDoc("none", "none") ELSE NoDoc]
  /\ promoCodes = <<>>
  /\ referralCodes = <<>>
  /\ partners = [u \in AllIds |-> NoDoc]
  /\ ambassadors = [u \in AllIds |-> NoDoc]
  /\ partnerTracking = <<>>
  /\ referralTracking = <<>>
  /\ partnerPayouts = <<>>
  /\ ambassadorPayouts = <<>>
  /\ ambassador_payouts = <<>>
  /\ payout_requests = <<>>
  /\ transfers = <<>>
  /\ now = 0
  /\ calls = [c \in Slots |-> Idle]
  /\ ncalls = 0
  /\ approvedOk = {}

NextSubmit ==
  \E c \in Slots :
    \/ /\ ncalls < MaxSubmitCalls
       /\ \E userId \in AllIds \cup {Missing}, promoCode \in PreferredCodes :
            PartnerSubmitStart(c, userId, promoCode, Missing, 30, 20)
    \/ \E fails \in BOOLEAN : PartnerSubmitGetUser(c, fails)
    \/ \E fails \in BOOLEAN, n \in 0..(MaxRandom - 1) : PartnerSubmitGenerate(c, fails, n)
    \/ \E fails \in BOOLEAN : PartnerSubmitAddPromo(c, fails)
    \/ \E fails \in BOOLEAN : PartnerSubmitSetPartner(c, fails)
    \/ \E fails \in BOOLEAN : PartnerSubmitUpdateUser(c, fails)
    \/ /\ ncalls < MaxSubmitCalls
       /\ \E userId \in AllIds \cup {Missing}, referralCode \in PreferredCodes :
            AmbassadorSubmitStart(c, userId, referralCode)
    \/ \E fails \in BOOLEAN : AmbassadorSubmitGetAmbassador(c, fails)
    \/ \E fails \in BOOLEAN : AmbassadorSubmitGenerate(c, fails)
    \/ \E fails \in BOOLEAN : AmbassadorSubmitAddReferral(c, fails)
    \/ \E fails \in BOOLEAN : AmbassadorSubmitSetAmbassador(c, fails)
    \/ \E fails \in BOOLEAN : AmbassadorSubmitUpdateUser(c, fails)
    \/ Return(c)

SpecSubmit == InitSubmit /\ [][NextSubmit]_vars

-----------------------------------------------------------------------------
(* Lifecycle: u1, an approved partner and ambassador, applies again and is   *)
(* approved, declined or suspended while u2 redeems u1's codes.              *)

MaxLifecycleCalls == 3

NewStatuses == {"approved", "declined", "suspended"}

InitLifecycle ==
  /\ InitStore(DefaultUsageLimit, DefaultUsageLimit)
  /\ now = 1

NextLifecycle ==
  \E c \in Slots :
    \/ /\ ncalls < MaxLifecycleCalls
       /\ PartnerSubmitStart(c, "u1", Missing, Missing, 30, 20)
    \/ \E fails \in BOOLEAN : PartnerSubmitGetUser(c, fails)
    \/ \E fails \in BOOLEAN, n \in 0..(MaxRandom - 1) : PartnerSubmitGenerate(c, fails, n)
    \/ \E fails \in BOOLEAN : PartnerSubmitAddPromo(c, fails)
    \/ \E fails \in BOOLEAN : PartnerSubmitSetPartner(c, fails)
    \/ \E fails \in BOOLEAN : PartnerSubmitUpdateUser(c, fails)
    \/ /\ ncalls < MaxLifecycleCalls
       /\ \E referralCode \in PreferredCodes : AmbassadorSubmitStart(c, "u1", referralCode)
    \/ \E fails \in BOOLEAN : AmbassadorSubmitGetAmbassador(c, fails)
    \/ \E fails \in BOOLEAN : AmbassadorSubmitGenerate(c, fails)
    \/ \E fails \in BOOLEAN : AmbassadorSubmitAddReferral(c, fails)
    \/ \E fails \in BOOLEAN : AmbassadorSubmitSetAmbassador(c, fails)
    \/ \E fails \in BOOLEAN : AmbassadorSubmitUpdateUser(c, fails)
    \/ /\ ncalls < MaxLifecycleCalls
       /\ \E newStatus \in NewStatuses : PartnerStatusStart(c, "u1", newStatus)
    \/ \E fails \in BOOLEAN : PartnerStatusGetPartner(c, fails)
    \/ \E fails \in BOOLEAN : PartnerStatusGetPromo(c, fails)
    \/ \E fails \in BOOLEAN : PartnerStatusUpdatePromo(c, fails)
    \/ \E fails \in BOOLEAN : PartnerStatusUpdatePartner(c, fails)
    \/ \E fails \in BOOLEAN : PartnerStatusDeclinePartner(c, fails)
    \/ \E fails \in BOOLEAN : PartnerStatusDeclinePromo(c, fails)
    \/ \E fails \in BOOLEAN : PartnerStatusSetStatus(c, fails)
    \/ \E fails \in BOOLEAN : PartnerStatusGetUser(c, fails)
    \/ \E fails \in BOOLEAN : PartnerStatusUpdateUser(c, fails)
    \/ \E fails \in BOOLEAN : PartnerStatusSendMail(c, fails)
    \/ /\ ncalls < MaxLifecycleCalls
       /\ \E newStatus \in NewStatuses : AmbassadorStatusStart(c, "u1", newStatus)
    \/ \E fails \in BOOLEAN : AmbassadorStatusGetAmbassador(c, fails)
    \/ \E fails \in BOOLEAN : AmbassadorStatusFindReferral(c, fails)
    \/ \E fails \in BOOLEAN : AmbassadorStatusUpdateReferral(c, fails)
    \/ \E fails \in BOOLEAN : AmbassadorStatusDeclineReferral(c, fails)
    \/ \E fails \in BOOLEAN : AmbassadorStatusUpdateAmbassador(c, fails)
    \/ \E fails \in BOOLEAN : AmbassadorStatusGetUser(c, fails)
    \/ \E fails \in BOOLEAN : AmbassadorStatusUpdateUser(c, fails)
    \/ /\ ncalls < MaxLifecycleCalls
       /\ UsePromoStart(c, "PRMU1", "u2", 100000)
    \/ UsePromoGetUser(c, FALSE)
    \/ UsePromoFindPromo(c, FALSE)
    \/ UsePromoGetPartner(c, FALSE)
    \/ UsePromoIncrement(c, FALSE)
    \/ UsePromoAddTracking(c, FALSE)
    \/ UsePromoGetPartner2(c, FALSE)
    \/ UsePromoUpdatePartner(c, FALSE)
    \/ /\ ncalls < MaxLifecycleCalls
       /\ UseReferralStart(c, "AMBU1", "u2", 100000)
    \/ UseReferralGetUser(c, FALSE)
    \/ UseReferralFindReferral(c, FALSE)
    \/ UseReferralPrevUsage(c, FALSE)
    \/ UseReferralGetAmbassador(c, FALSE)
    \/ UseReferralIncrement(c, FALSE)
    \/ UseReferralAddTracking(c, FALSE)
    \/ UseReferralUpdateAmbassador(c, FALSE)
    \/ Return(c)

SpecLifecycle == InitLifecycle /\ [][NextLifecycle]_vars

-----------------------------------------------------------------------------
(* Status: u1, an approved partner and ambassador, applies again and is      *)
(* approved, declined or suspended while time passes; the validity windows   *)
(* of u1's first codes run from day 0 to day WindowDays.                     *)

MaxStatusCalls == 3
MaxDay == 121
TickDays == 120

InitStatus ==
  /\ InitStore(DefaultUsageLimit, DefaultUsageLimit)
  /\ now = 1

NextStatus ==
  \/ now + TickDays <= MaxDay /\ Tick(TickDays)
  \/ \E c \in Slots :
       \/ ncalls < MaxStatusCalls /\ PartnerSubmitStart(c, "u1", Missing, Missing, 30, 20)
       \/ PartnerSubmitGetUser(c, FALSE)
       \/ \E n \in 0..(MaxRandom - 1) : PartnerSubmitGenerate(c, FALSE, n)
       \/ PartnerSubmitAddPromo(c, FALSE)
       \/ PartnerSubmitSetPartner(c, FALSE)
       \/ PartnerSubmitUpdateUser(c, FALSE)
       \/ ncalls < MaxStatusCalls /\ AmbassadorSubmitStart(c, "u1", "SAVE")
       \/ AmbassadorSubmitGetAmbassador(c, FALSE)
       \/ AmbassadorSubmitGenerate(c, FALSE)
       \/ AmbassadorSubmitAddReferral(c, FALSE)
       \/ AmbassadorSubmitSetAmbassador(c, FALSE)
       \/ AmbassadorSubmitUpdateUser(c, FALSE)
       \/ /\ ncalls < MaxStatusCalls
          /\ \E newStatus \in NewStatuses : PartnerStatusStart(c, "u1", newStatus)
       \/ \E fails \in BOOLEAN : PartnerStatusGetPartner(c, fails)
       \/ \E fails \in BOOLEAN : PartnerStatusGetPromo(c, fails)
       \/ \E fails \in BOOLEAN : PartnerStatusUpdatePromo(c, fails)
       \/ \E fails \in BOOLEAN : PartnerStatusUpdatePartner(c, fails)
       \/ \E fails \in BOOLEAN : PartnerStatusDeclinePartner(c, fails)
       \/ \E fails \in BOOLEAN : PartnerStatusDeclinePromo(c, fails)
       \/ \E fails \in BOOLEAN : PartnerStatusSetStatus(c, fails)
       \/ \E fails \in BOOLEAN : PartnerStatusGetUser(c, fails)
       \/ \E fails \in BOOLEAN : PartnerStatusUpdateUser(c, fails)
       \/ \E fails \in BOOLEAN : PartnerStatusSendMail(c, fails)
       \/ /\ ncalls < MaxStatusCalls
          /\ \E newStatus \in NewStatuses : AmbassadorStatusStart(c, "u1", newStatus)
       \/ \E fails \in BOOLEAN : AmbassadorStatusGetAmbassador(c, fails)
       \/ \E fails \in BOOLEAN : AmbassadorStatusFindReferral(c, fails)
       \/ \E fails \in BOOLEAN : AmbassadorStatusUpdateReferral(c, fails)
       \/ \E fails \in BOOLEAN : AmbassadorStatusDeclineReferral(c, fails)
       \/ \E fails \in BOOLEAN : AmbassadorStatusUpdateAmbassador(c, fails)
       \/ \E fails \in BOOLEAN : AmbassadorStatusGetUser(c, fails)
       \/ \E fails \in BOOLEAN : AmbassadorStatusUpdateUser(c, fails)
       \/ Return(c)

SpecStatus == InitStatus /\ [][NextStatus]_vars

-----------------------------------------------------------------------------
(* Mirror: updateStatus calls for u1 in both roles, running one after the   *)
(* other or at the same time, no await rejecting.                           *)

MaxMirrorCalls == 3

InitMirror ==
  /\ InitStore(DefaultUsageLimit, DefaultUsageLimit)
  /\ now = 1

NextMirror ==
  \E c \in Slots :
    \/ /\ ncalls < MaxMirrorCalls
       /\ \E newStatus \in NewStatuses : PartnerStatusStart(c, "u1", newStatus)
    \/ PartnerStatusGetPartner(c, FALSE)
    \/ PartnerStatusGetPromo(c, FALSE)
    \/ PartnerStatusUpdatePromo(c, FALSE)
    \/ PartnerStatusUpdatePartner(c, FALSE)
    \/ PartnerStatusDeclinePartner(c, FALSE)
    \/ PartnerStatusDeclinePromo(c, FALSE)
    \/ PartnerStatusSetStatus(c, FALSE)
    \/ PartnerStatusGetUser(c, FALSE)
    \/ PartnerStatusUpdateUser(c, FALSE)
    \/ PartnerStatusSendMail(c, FALSE)
    \/ /\ ncalls < MaxMirrorCalls
       /\ \E newStatus \in NewStatuses : AmbassadorStatusStart(c, "u1", newStatus)
    \/ AmbassadorStatusGetAmbassador(c, FALSE)
    \/ AmbassadorStatusFindReferral(c, FALSE)
    \/ AmbassadorStatusUpdateReferral(c, FALSE)
    \/ AmbassadorStatusDeclineReferral(c, FALSE)
    \/ AmbassadorStatusUpdateAmbassador(c, FALSE)
    \/ AmbassadorStatusGetUser(c, FALSE)
    \/ AmbassadorStatusUpdateUser(c, FALSE)
    \/ Return(c)

SpecMirror == InitMirror /\ [][NextMirror]_vars

-----------------------------------------------------------------------------
(* Deletion: partner u1 and promo codes are deleted while u1 and u2 redeem  *)
(* u1's codes; no await of a redemption rejects.                            *)

MaxDeleteCalls == 3

InitDelete ==
  /\ InitStore(DefaultUsageLimit, DefaultUsageLimit)
  /\ now = 1

NextDelete ==
  \E c \in Slots :
    \/ /\ ncalls < MaxDeleteCalls
       /\ \E partnerId \in UserIds : DeletePartnerStart(c, partnerId)
    \/ \E fails \in BOOLEAN : DeletePartnerGetPartner(c, fails)
    \/ \E fails \in BOOLEAN : DeletePartnerDelete(c, fails)
    \/ /\ ncalls < MaxDeleteCalls
       /\ \E id \in 1..2 : DeletePromoStart(c, id)
    \/ \E fails \in BOOLEAN : DeletePromoDelete(c, fails)
    \/ /\ ncalls < MaxDeleteCalls
       /\ \E userId \in UserIds : UsePromoStart(c, "PRMU1", userId, 100000)
    \/ UsePromoGetUser(c, FALSE)
    \/ UsePromoFindPromo(c, FALSE)
    \/ UsePromoGetPartner(c, FALSE)
    \/ UsePromoIncrement(c, FALSE)
    \/ UsePromoAddTracking(c, FALSE)
    \/ UsePromoGetPartner2(c, FALSE)
    \/ UsePromoUpdatePartner(c, FALSE)
    \/ /\ ncalls < MaxDeleteCalls
       /\ \E userId \in UserIds : UseReferralStart(c, "AMBU1", userId, 100000)
    \/ UseReferralGetUser(c, FALSE)
    \/ UseReferralFindReferral(c, FALSE)
    \/ UseReferralPrevUsage(c, FALSE)
    \/ UseReferralGetAmbassador(c, FALSE)
    \/ UseReferralIncrement(c, FALSE)
    \/ UseReferralAddTracking(c, FALSE)
    \/ UseReferralUpdateAmbassador(c, FALSE)
    \/ Return(c)

SpecDelete == InitDelete /\ [][NextDelete]_vars

-----------------------------------------------------------------------------
(* Concurrent approvals: redemptions, payout requests and approvals of u1   *)
(* in both roles, two calls in flight, no await rejecting.                  *)

MaxApproveCalls == 5

InitApprove ==
  /\ InitStore(DefaultUsageLimit, DefaultUsageLimit)
  /\ now = 1

NextApprove ==
  \E c \in Slots :
    \/ /\ ncalls < MaxApproveCalls
       /\ \E role \in Roles : RequestPayoutStart(c, role, "u1", "acct_u1")
    \/ RequestPayoutGetReferrer(c, FALSE)
    \/ RequestPayoutAddDoc(c, FALSE)
    \/ /\ ncalls < MaxApproveCalls
       /\ \E role \in Roles, requestId \in 1..2 : ApprovePayoutStart(c, role, requestId)
    \/ ApprovePayoutGetRequest(c, FALSE)
    \/ ApprovePayoutGetReferrer(c, FALSE)
    \/ ApprovePayoutTransfer(c, FALSE)
    \/ ApprovePayoutUpdateRequest(c, FALSE)
    \/ ApprovePayoutUpdateReferrer(c, FALSE)
    \/ ncalls < MaxApproveCalls /\ UseReferralStart(c, "AMBU1", "u2", 1504560)
    \/ UseReferralGetUser(c, FALSE)
    \/ UseReferralFindReferral(c, FALSE)
    \/ UseReferralPrevUsage(c, FALSE)
    \/ UseReferralGetAmbassador(c, FALSE)
    \/ UseReferralIncrement(c, FALSE)
    \/ UseReferralAddTracking(c, FALSE)
    \/ UseReferralUpdateAmbassador(c, FALSE)
    \/ ncalls < MaxApproveCalls /\ UsePromoStart(c, "PRMU1", "u2", 100025)
    \/ UsePromoGetUser(c, FALSE)
    \/ UsePromoFindPromo(c, FALSE)
    \/ UsePromoGetPartner(c, FALSE)
    \/ UsePromoIncrement(c, FALSE)
    \/ UsePromoAddTracking(c, FALSE)
    \/ UsePromoGetPartner2(c, FALSE)
    \/ UsePromoUpdatePartner(c, FALSE)
    \/ Return(c)

SpecApprove == InitApprove /\ [][NextApprove]_vars

-----------------------------------------------------------------------------
(* Stripe account status: webhooks about u1's account arrive while u1's     *)
(* codes are redeemed and payouts are requested and approved.               *)

MaxWebhookCalls == 4

InitWebhook ==
  /\ InitStore(DefaultUsageLimit, DefaultUsageLimit)
  /\ now = 1

NextWebhook ==
  \E c \in Slots :
    \/ /\ ncalls < MaxWebhookCalls
       /\ \E valid \in BOOLEAN, role \in Roles, type \in EventTypes, b \in BOOLEAN :
            WebhookStart(c, valid, role, Event(type, role, "u1", "acct_u1", b, b))
    \/ \E fails \in BOOLEAN : WebhookUpdateDoc(c, fails)
    \/ /\ ncalls < MaxWebhookCalls
       /\ \E role \in Roles : RequestPayoutStart(c, role, "u1", "acct_u1")
    \/ RequestPayoutGetReferrer(c, FALSE)
    \/ RequestPayoutAddDoc(c, FALSE)
    \/ /\ ncalls < MaxWebhookCalls
       /\ \E role \in Roles : ApprovePayoutStart(c, role, 1)
    \/ ApprovePayoutGetRequest(c, FALSE)
    \/ ApprovePayoutGetReferrer(c, FALSE)
    \/ \E fails \in BOOLEAN : ApprovePayoutTransfer(c, fails)
    \/ ApprovePayoutUpdateRequest(c, FALSE)
    \/ ApprovePayoutUpdateReferrer(c, FALSE)
    \/ ncalls < MaxWebhookCalls /\ UseReferralStart(c, "AMBU1", "u2", 1504560)
    \/ UseReferralGetUser(c, FALSE)
    \/ UseReferralFindReferral(c, FALSE)
    \/ UseReferralPrevUsage(c, FALSE)
    \/ UseReferralGetAmbassador(c, FALSE)
    \/ UseReferralIncrement(c, FALSE)
    \/ UseReferralAddTracking(c, FALSE)
    \/ UseReferralUpdateAmbassador(c, FALSE)
    \/ ncalls < MaxWebhookCalls /\ UsePromoStart(c, "PRMU1", "u2", 100025)
    \/ UsePromoGetUser(c, FALSE)
    \/ UsePromoFindPromo(c, FALSE)
    \/ UsePromoGetPartner(c, FALSE)
    \/ UsePromoIncrement(c, FALSE)
    \/ UsePromoAddTracking(c, FALSE)
    \/ UsePromoGetPartner2(c, FALSE)
    \/ UsePromoUpdatePartner(c, FALSE)
    \/ Return(c)

SpecWebhook == InitWebhook /\ [][NextWebhook]_vars

-----------------------------------------------------------------------------
(* The earliest payout variant: referral codes of u1 are redeemed, payouts  *)
(* are requested, approved and cancelled.  The update of /cancel-payout is  *)
(* not a step: no handler writes "payout_requests", so its read never finds *)
(* a document.                                                              *)

MaxEarlyCalls == 5

InitEarly ==
  /\ InitStore(DefaultUsageLimit, DefaultUsageLimit)
  /\ now = 1

NextEarly ==
  \E c \in Slots :
    \/ /\ ncalls < MaxEarlyCalls
       /\ \E acct \in Accounts : EarlyRequestPayoutStart(c, "u1", acct)
    \/ \E fails \in BOOLEAN : EarlyRequestPayoutGetAmbassador(c, fails)
    \/ \E fails \in BOOLEAN : EarlyRequestPayoutAddDoc(c, fails)
    \/ /\ ncalls < MaxEarlyCalls
       /\ \E requestId \in RequestIds : EarlyApprovePayoutStart(c, requestId)
    \/ \E fails \in BOOLEAN : EarlyApprovePayoutGetRequest(c, fails)
    \/ \E fails \in BOOLEAN : EarlyApprovePayoutGetAmbassador(c, fails)
    \/ \E fails \in BOOLEAN : EarlyApprovePayoutTransfer(c, fails)
    \/ \E fails \in BOOLEAN : EarlyApprovePayoutUpdateRequest(c, fails)
    \/ /\ ncalls < MaxEarlyCalls
       /\ \E requestId \in RequestIds : EarlyCancelPayoutStart(c, requestId)
    \/ \E fails \in BOOLEAN : EarlyCancelPayoutGetRequest(c, fails)
    \/ ncalls < MaxEarlyCalls /\ UseReferralStart(c, "AMBU1", "u2", 1504560)
    \/ UseReferralGetUser(c, FALSE)
    \/ UseReferralFindReferral(c, FALSE)
    \/ UseReferralPrevUsage(c, FALSE)
    \/ UseReferralGetAmbassador(c, FALSE)
    \/ UseReferralIncrement(c, FALSE)
    \/ UseReferralAddTracking(c, FALSE)
    \/ UseReferralUpdateAmbassador(c, FALSE)
    \/ Return(c)

SpecEarly == InitEarly /\ [][NextEarly]_vars

-----------------------------------------------------------------------------
(* Claims about payout, checked under SpecPayout *)

Requests == {<<role, rid>> : role \in Roles, rid \in 1..MaxPayoutCalls}

Stored(role, rid) == rid \in DOMAIN Payouts(role)

TransfersOf(role, rid) ==
  {i \in DOMAIN transfers : transfers[i].role = role /\ transfers[i].requestId = rid}

\* the steps in which call c, running op, answers
Completes(c, op) == calls[c].op = op /\ calls[c].pc # "done" /\ calls'[c].pc = "done"

\* C4: for every payout request, stripe.transfers.create succeeds at most once,
\* under any interleaving of approvePayout and cancelPayout calls on it.
C4_TransferAtMostOncePerRequest ==
  \A r \in Requests : Cardinality(TransfersOf(r[1], r[2])) <= 1

\* C5: an approvePayout call that arrives after an approvePayout of the same
\* request answered 200 ends at its read of the request, with the state-conflict
\* answer 400 "Request already processed" (or 500 when the read itself is
\* rejected), and that step makes no transfer and changes no document.
C5_SecondApproveRejected ==
  [][\A c \in Slots :
       (calls[c].op = "approvePayout" /\ calls[c].arg.retry /\ calls[c].pc # "done"
          /\ calls'[c] # calls[c])
         => /\ calls[c].pc = "ap_getRequest"
            /\ Completes(c, "approvePayout")
            /\ calls'[c].res \in {[code |-> 400, body |-> "Request already processed"],
                              [code |-> 500, body |-> "error"]}
            /\ UNCHANGED <<partnerPayouts, ambassadorPayouts, partners,
                           ambassadors, transfers>>]_vars

\* C5 witness: a retried approvePayout has answered "Request already processed"
\* and the request is approved with its one transfer.
C5_Witness ==
  \E c \in Slots :
    /\ calls[c].op = "approvePayout" /\ calls[c].pc = "done" /\ calls[c].arg.retry
    /\ calls[c].res = [code |-> 400, body |-> "Request already processed"]
    /\ GetRequest(calls[c].role, calls[c].arg.requestId).status = "approved"
    /\ Cardinality(TransfersOf(calls[c].role, calls[c].arg.requestId)) = 1

\* C6: when an approvePayout call answers, either it made no transfer and
\* changed neither the requests nor the referrers, or it made a transfer, the
\* request is approved with that transfer's reference and the referrer's
\* availableBalance is zero.
C6_ApproveAllOrNothing ==
  [][\A c \in Slots :
       Completes(c, "approvePayout") =>
         IF calls[c].pc \in {"ap_updateRequest", "ap_updateReferrer"}
           THEN LET role == calls[c].role
                    loc == calls[c].loc
                    request == GetRequest(role, calls[c].arg.requestId)'
                IN /\ request.status = "approved"
                   /\ request.transferId = loc.transferId
                   /\ Referrers(role)'[loc.request.referrerId].availableBalance = 0
           ELSE UNCHANGED <<partnerPayouts, ambassadorPayouts, partners, ambassadors>>]_vars

\* C7: when stripe.transfers.create fails the call answers 500 and the step
\* changes no request and no referrer; and in every state a request with status
\* approved carries the reference of a successful transfer made for it.
C7_FailedTransferChangesNothing ==
  /\ [][\A c \in Slots :
          (calls[c].pc = "ap_transfer" /\ Completes(c, "approvePayout"))
            => /\ calls'[c].res.code = 500
               /\ UNCHANGED <<partnerPayouts, ambassadorPayouts, partners,
                              ambassadors, transfers>>]_vars
  /\ [](\A r \in Requests :
          (Stored(r[1], r[2]) /\ Payouts(r[1])[r[2]].status = "approved")
            => Payouts(r[1])[r[2]].transferId \in TransfersOf(r[1], r[2]))

\* C7 witness: an approvePayout has answered 500 at the transfer, its request is
\* still pending without a transfer reference and the balance it read is intact.
C7_Witness ==
  \E c \in Slots :
    /\ calls[c].op = "approvePayout" /\ calls[c].pc = "done" /\ calls[c].res.code = 500
    /\ DOMAIN calls[c].loc = {"request", "payoutAmount", "amountInCents"}
    /\ LET request == GetRequest(calls[c].role, calls[c].arg.requestId)
       IN /\ request.status = "pending"
          /\ request.transferId = Null
          /\ Referrers(calls[c].role)[request.referrerId].availableBalance
               = calls[c].loc.payoutAmount
    /\ transfers = <<>>

\* n = round(x / 10), halves rounded up
IsRounded(n, x) == 10 * n - 5 <= x /\ x < 10 * n + 5

\* C8: a successful approvePayout transfers round(100 * B) minor units, B being
\* the referrer's availableBalance at the call's read of the referrer (not the
\* amount stored in the request), and then sets availableBalance to 0;
\* B = 150.456 gives 15046.
C8_TransferIsRoundedCurrentBalance ==
  [][\A c \in Slots :
       LET role == calls[c].role
           loc == calls[c].loc
           loc2 == calls'[c].loc
       IN /\ (calls[c].pc = "ap_getReferrer" /\ calls'[c].pc = "ap_transfer")
               => loc2.payoutAmount = Referrers(role)[loc.request.referrerId].availableBalance
          /\ (calls[c].pc = "ap_transfer" /\ calls'[c].pc = "ap_updateRequest")
               => /\ Len(transfers') = Len(transfers) + 1
                  /\ IsRounded(transfers'[Len(transfers')].amount, loc.payoutAmount)
                  /\ loc.payoutAmount = 150456 => transfers'[Len(transfers')].amount = 15046
                  /\ transfers'[Len(transfers')].destination = loc.request.connectedAccountId
          /\ (calls[c].pc = "ap_updateReferrer" /\ Completes(c, "approvePayout")
                /\ calls'[c].res.code = 200)
               => Referrers(role)'[loc.request.referrerId].availableBalance = 0]_vars

\* C8 witness: an approvePayout has answered 200 after transferring the rounded
\* current balance, which had grown since the request was made.
C8_Witness ==
  \E c \in Slots :
    /\ calls[c].op = "approvePayout" /\ calls[c].pc = "done" /\ calls[c].res.code = 200
    /\ calls[c].loc.request.amount = 150456
    /\ calls[c].loc.payoutAmount = 300912
    /\ transfers[calls[c].loc.transferId].amount = 30091
    /\ ambassadors[calls[c].loc.request.referrerId].availableBalance = 0

\* C9: requestPayout answers ReferrerNotFound for an unknown referrer,
\* AccountMismatch for another account id and NoBalance whenever the referrer's
\* availableBalance <= 0, creating no request; a created request is pending
\* with amount equal to the referrer's availableBalance.
C9_RequestPayoutChecksAvailableBalance ==
  [][\A c \in Slots :
       LET role == calls[c].role
           arg == calls[c].arg
           d == Referrers(role)[arg.id]
       IN (calls[c].pc = "rp_getReferrer" /\ calls'[c] # calls[c])
            => IF Completes(c, "requestPayout") /\ calls'[c].res.code = 500
                 THEN UNCHANGED <<partnerPayouts, ambassadorPayouts>>
               ELSE IF ~d.exists
                 THEN /\ Completes(c, "requestPayout")
                      /\ calls'[c].res = [code |-> 404, body |-> "Referrer not found"]
               ELSE IF d.connectAccountId # arg.connectedAccountId
                 THEN /\ Completes(c, "requestPayout")
                      /\ calls'[c].res = [code |-> 400, body |-> "Connected account ID mismatch"]
               ELSE IF d.availableBalance <= 0
                 THEN /\ Completes(c, "requestPayout")
                      /\ calls'[c].res = [code |-> 400, body |-> "No referral balance available"]
               ELSE /\ calls'[c].pc = "rp_addDoc"
                    /\ calls'[c].loc.balance = d.availableBalance]_vars

\* C10: the status of a payout request only changes from pending, to approved
\* or to cancelled; an approved or cancelled request never changes again.
C10_StatusLeavesPendingOnce ==
  [][\A r \in Requests :
       (Stored(r[1], r[2]) /\ Payouts(r[1])'[r[2]].status # Payouts(r[1])[r[2]].status)
         => /\ Payouts(r[1])[r[2]].status = "pending"
            /\ Payouts(r[1])'[r[2]].status \in {"approved", "cancelled"}]_vars

\* C11: cancelPayout answers 404 "Request not found" for an unknown request id
\* and 400 "Request already processed" for a request it reads as not pending,
\* changing nothing; for a request it reads as pending it sets the status to
\* cancelled and nothing else: no referrer, no other request, no transfer.
C11_CancelOnlyFlipsPendingRequest ==
  [][\A c \in Slots :
       (calls[c].op = "cancelPayout" /\ calls[c].pc # "done" /\ calls'[c] # calls[c])
         => LET role == calls[c].role
                rid == calls[c].arg.requestId
                request == GetRequest(role, rid)
                res == calls'[c].res
                same == UNCHANGED <<partnerPayouts, ambassadorPayouts>>
            IN /\ UNCHANGED <<partners, ambassadors, transfers>>
               /\ IF calls[c].pc = "cp_getRequest"
                    THEN /\ same
                         /\ IF res.code = 500 THEN TRUE
                            ELSE IF ~request.exists
                              THEN res = [code |-> 404, body |-> "Request not found"]
                            ELSE IF request.status # "pending"
                              THEN res = [code |-> 400, body |-> "Request already processed"]
                            ELSE calls'[c].pc = "cp_update"
                    ELSE IF res.code = 500 THEN same
                    ELSE /\ res = [code |-> 200, body |-> "Payout request cancelled"]
                         /\ Payouts(role)' =
                              [Payouts(role) EXCEPT ![rid].status = "cancelled"]
                         /\ \A other \in Roles \ {role} : Payouts(other)' = Payouts(other)]_vars

\* C11 witness: a cancelPayout has answered 200, its request is cancelled, the
\* referrer still has the balance the request was made for, and no transfer
\* was made.
C11_Witness ==
  \E c \in Slots :
    /\ calls[c].op = "cancelPayout" /\ calls[c].pc = "done" /\ calls[c].res.code = 200
    /\ LET request == GetRequest(calls[c].role, calls[c].arg.requestId)
       IN /\ request.status = "cancelled"
          /\ Referrers(calls[c].role)[request.referrerId].availableBalance = request.amount
          /\ request.amount > 0
    /\ transfers = <<>>

-----------------------------------------------------------------------------
(* Claims about redemption, checked under SpecRedeem *)

CodeStrings == {"PRMU1", "AMBU1", "NOPE"}

PromoRecords(userId, code) ==
  {i \in DOMAIN partnerTracking :
     partnerTracking[i].userId = userId /\ partnerTracking[i].promoCode = code}

\* C1: the tracking store holds at most one redemption record for each
\* (userId, code string) pair, in partnerTracking and in referralTracking.
C1_OneRecordPerUserAndCode ==
  \A u \in UserIds, code \in CodeStrings :
    /\ Cardinality(PromoRecords(u, code)) <= 1
    /\ Cardinality(PrevUsageQuery(u, code)) <= 1

\* the redemption records in tracking for code document i, and their users
RecordsOf(tracking, key, i) == {k \in DOMAIN tracking : tracking[k][key] = i}

Redeemers(tracking, key, i) == {tracking[k].userId : k \in RecordsOf(tracking, key, i)}

DistinctRedeemers(tracking, key, i) ==
  Cardinality(Redeemers(tracking, key, i)) = Cardinality(RecordsOf(tracking, key, i))

\* C2: for every code with a non-null usageLimit N whose redemption records
\* are by distinct users, the number of redemption records written for the
\* code (each of which follows an increment of timesUsed) is at most N.
C2_UsageLimitNeverExceeded ==
  /\ \A i \in DOMAIN promoCodes :
       (promoCodes[i].usageLimit # Null /\ DistinctRedeemers(partnerTracking, "promoId", i))
         => /\ Cardinality(RecordsOf(partnerTracking, "promoId", i)) <= promoCodes[i].usageLimit
            /\ promoCodes[i].timesUsed >= Cardinality(RecordsOf(partnerTracking, "promoId", i))
  /\ \A i \in DOMAIN referralCodes :
       (referralCodes[i].usageLimit # Null
          /\ DistinctRedeemers(referralTracking, "referralId", i))
         => /\ Cardinality(RecordsOf(referralTracking, "referralId", i))
                 <= referralCodes[i].usageLimit
            /\ referralCodes[i].timesUsed
                 >= Cardinality(RecordsOf(referralTracking, "referralId", i))

\* a * (1 - d) * r, with d and r in hundredths and a missing amount as 0
Commission(a, d, r) == ((IF a = Null THEN 0 ELSE a) * (100 - d) * r) \div 10000

\* the growth of availableBalance and of cumulative revenue in one step
PartnerGrowth(id) ==
  [availableBalance |-> partners'[id].availableBalance - partners[id].availableBalance,
   revenue |-> partners'[id].totalPartnerRevenue - partners[id].totalPartnerRevenue]

AmbassadorGrowth(id) ==
  [availableBalance |-> ambassadors'[id].availableBalance - ambassadors[id].availableBalance,
   revenue |-> ambassadors'[id].totalAmbassadorRevenue
                 - ambassadors[id].totalAmbassadorRevenue]

\* C13: every redemption of amount a that answers 200 adds exactly
\* a * (1 - d) * r to the referrer's availableBalance and to its cumulative
\* revenue (d the code's discount rate, 0 for referral codes; r the referrer's
\* commission rate), whatever other redemptions are in flight, and no other
\* step of a redemption changes them: k redemptions add k * a * (1 - d) * r.
C13_RedemptionsAccumulate ==
  [][\A id \in UserIds :
       /\ partners[id].exists =>
            IF \E c \in Slots : /\ At(c, "usePromo", "pu_updatePartner")
                                /\ calls[c].loc.partnerId = id
                                /\ calls'[c].res.code = 200
              THEN \E c \in Slots :
                     /\ At(c, "usePromo", "pu_updatePartner")
                     /\ calls'[c].res.code = 200
                     /\ LET x == Commission(calls[c].arg.amount,
                                            promoCodes[calls[c].loc.promoId].discountRate,
                                            partners[id].commissionRate)
                        IN PartnerGrowth(id) = [availableBalance |-> x, revenue |-> x]
              ELSE PartnerGrowth(id) = [availableBalance |-> 0, revenue |-> 0]
       /\ ambassadors[id].exists =>
            IF \E c \in Slots : /\ At(c, "useReferral", "ru_updateAmbassador")
                                /\ calls[c].loc.ambassadorId = id
                                /\ calls'[c].res.code = 200
              THEN \E c \in Slots :
                     /\ At(c, "useReferral", "ru_updateAmbassador")
                     /\ calls'[c].res.code = 200
                     /\ LET x == Commission(calls[c].arg.amount, 0,
                                            ambassadors[id].commissionRate)
                        IN AmbassadorGrowth(id) = [availableBalance |-> x, revenue |-> x]
              ELSE AmbassadorGrowth(id) = [availableBalance |-> 0, revenue |-> 0]]_vars

\* C13 witness: two overlapping redemptions of PRMU1, each of amount 100 at
\* discount 20% and commission 30%, have both answered 200 and u1's balance
\* and revenue are 2 * 24.
C13_Witness ==
  /\ \A c \in Slots : calls[c].op = "usePromo" /\ calls[c].pc = "done"
                        /\ calls[c].res.code = 200 /\ calls[c].arg.amount = 100000
  /\ partners["u1"].availableBalance = 48000
  /\ partners["u1"].totalPartnerRevenue = 48000

\* the relations of C14 between the parts of one breakdown, rates in hundredths
IsBreakdown(amount, rate, share, b) ==
  /\ 100 * b.discountAmount = amount * rate
  /\ b.finalAmount = amount - b.discountAmount
  /\ 100 * b.partnerRevenue = b.finalAmount * share
  /\ b.companyRevenue = b.finalAmount - b.partnerRevenue
  /\ b.discountAmount + b.finalAmount = amount
  /\ b.partnerRevenue + b.companyRevenue = b.finalAmount
  /\ (amount = 100000 /\ rate = 20 /\ share = 30)
       => /\ b.discountAmount = 20000 /\ b.finalAmount = 80000
          /\ b.partnerRevenue = 24000 /\ b.companyRevenue = 56000

\* C14: every partnerTracking record, and the breakdown returned by every
\* promo redemption that answered 200, has discountAmount = amount *
\* discountRate, finalAmount = amount - discountAmount, partnerRevenue =
\* finalAmount * commissionRate and companyRevenue = finalAmount -
\* partnerRevenue, with the code's discount rate and the partner's commission
\* rate; amount 100 at 20% and 0.3 gives 20, 80, 24 and 56.
C14_BreakdownIsConsistent ==
  /\ \A i \in DOMAIN partnerTracking :
       LET rec == partnerTracking[i]
       IN /\ rec.discountPercentage = promoCodes[rec.promoId].discountRate
          /\ rec.partnerSharePercentage = partners[rec.partnerId].commissionRate
          /\ IsBreakdown(rec.originalAmount, rec.discountPercentage,
                         rec.partnerSharePercentage, rec)
  /\ \A c \in Slots :
       (calls[c].op = "usePromo" /\ calls[c].pc = "done" /\ calls[c].res.code = 200)
         => IsBreakdown(calls[c].arg.amount, promoCodes[calls[c].loc.promoId].discountRate,
                        partners[calls[c].loc.partnerId].commissionRate, calls[c].loc)

\* C14 witness: a redemption of amount 100 has answered 200 and its record
\* holds 20, 80, 24 and 56.
C14_Witness ==
  \E c \in Slots :
    /\ calls[c].op = "usePromo" /\ calls[c].pc = "done" /\ calls[c].res.code = 200
    /\ calls[c].arg.amount = 100000
    /\ \E i \in DOMAIN partnerTracking :
         /\ partnerTracking[i].userId = calls[c].arg.userId
         /\ partnerTracking[i].discountAmount = 20000
         /\ partnerTracking[i].finalAmount = 80000
         /\ partnerTracking[i].partnerRevenue = 24000
         /\ partnerTracking[i].companyRevenue = 56000

\* the code document is active and today lies in its validity window
IsLive(codeData, today) ==
  /\ codeData.status = "active"
  /\ codeData.validFrom # Null /\ codeData.validFrom <= today
  /\ codeData.validTo # Null /\ today <= codeData.validTo

\* C15: a redeem call increments timesUsed, writes a record, credits a
\* balance or answers 200 only for a code that is active with
\* validFrom <= now <= validTo.
C15_OnlyLiveCodesAreRedeemed ==
  [][\A c \in Slots :
       /\ (calls[c].op = "usePromo"
             /\ calls[c].pc \in {"pu_increment", "pu_addTracking", "pu_updatePartner"}
             /\ (promoCodes' # promoCodes \/ partnerTracking' # partnerTracking
                   \/ partners' # partners \/ calls'[c].res.code = 200))
            => IsLive(promoCodes[calls[c].loc.promoId], now)
       /\ (calls[c].op = "useReferral"
             /\ calls[c].pc \in {"ru_increment", "ru_addTracking", "ru_updateAmbassador"}
             /\ (referralCodes' # referralCodes \/ referralTracking' # referralTracking
                   \/ ambassadors' # ambassadors \/ calls'[c].res.code = 200))
            => IsLive(referralCodes[calls[c].loc.referralId], now)]_vars

\* the usage limit of the code document is non-null and used up
Exhausted(codeData) ==
  codeData.usageLimit # Null /\ codeData.timesUsed >= codeData.usageLimit

UsageRejections ==
  {[code |-> 400, body |-> "Usage limit reached"],
   [code |-> 400, body |-> "Usage limit exceeded"],
   [code |-> 400, body |-> "Referral code usage limit reached"]}

\* C16: the step in which a validate or redeem call checks the usage limit
\* answers with the usage rejection exactly when the code's usageLimit is
\* non-null and timesUsed >= usageLimit (a code that passes the earlier
\* checks of the call), and a rejected call changes no document.
C16_UsageRejectedExactlyWhenExhausted ==
  [][\A c \in Slots :
       LET res == calls'[c].res
       IN /\ (At(c, "validatePromo", "vp_getDocs") /\ calls'[c] # calls[c])
               => \A i \in PromoQuery(calls[c].arg.code) :
                    /\ res \in UsageRejections => Exhausted(promoCodes[i])
                    /\ (Exhausted(promoCodes[i]) /\ res.code \notin {500, 404}
                          /\ res.body # "Promo expired") => res \in UsageRejections
          /\ (At(c, "usePromo", "pu_findPromo") /\ calls'[c] # calls[c])
               => \A i \in PromoQuery(calls[c].arg.code) :
                    /\ res \in UsageRejections => Exhausted(promoCodes[i])
                    /\ (Exhausted(promoCodes[i]) /\ res.code # 500)
                         => res \in UsageRejections
          /\ (At(c, "useReferral", "ru_findReferral") /\ calls'[c] # calls[c])
               => \A i \in ReferralQuery(calls[c].arg.code) :
                    /\ res \in UsageRejections => Exhausted(referralCodes[i])
                    /\ (Exhausted(referralCodes[i]) /\ IsLive(referralCodes[i], now)
                          /\ res.code # 500) => res \in UsageRejections
          /\ res \in UsageRejections /\ calls'[c] # calls[c]
               => UNCHANGED <<promoCodes, referralCodes, partners, ambassadors,
                              partnerTracking, referralTracking>>]_vars

\* C17: a redeem call by a user who had a redemption record for the code
\* when the call arrived never answers 200 and changes no document: timesUsed
\* is not incremented, no record is written and no balance is credited.
C17_SecondRedeemChangesNothing ==
  [][\A c \in Slots :
       (calls[c].op \in {"usePromo", "useReferral"} /\ calls[c].arg.redeemed
          /\ calls[c].pc # "done" /\ calls'[c] # calls[c])
         => /\ calls'[c].res.code # 200
            /\ UNCHANGED <<promoCodes, referralCodes, partners, ambassadors,
                           partnerTracking, referralTracking>>]_vars

\* no redeem call is between its first and its last step
NoRedeemInFlight ==
  \A c \in Slots : calls[c].op \in {"usePromo", "useReferral"} => calls[c].pc = "done"

RECURSIVE SumOfRecords(_, _, _, _, _)
\* the sum of field over the first n records of tracking whose key is id
SumOfRecords(tracking, key, id, field, n) ==
  IF n = 0 THEN 0
  ELSE SumOfRecords(tracking, key, id, field, n - 1)
         + (IF tracking[n][key] = id THEN tracking[n][field] ELSE 0)

\* C18: whenever no redeem call is in flight, every code's timesUsed equals
\* the number of redemption records for it and every referrer's cumulative
\* revenue equals the sum of the referrer revenue of its records: each call
\* made all three writes or none, also when one of its writes failed.
C18_RedeemWritesAllOrNothing ==
  NoRedeemInFlight =>
    /\ \A i \in DOMAIN promoCodes :
         promoCodes[i].timesUsed = Cardinality(RecordsOf(partnerTracking, "promoId", i))
    /\ \A i \in DOMAIN referralCodes :
         referralCodes[i].timesUsed
           = Cardinality(RecordsOf(referralTracking, "referralId", i))
    /\ \A id \in UserIds :
         /\ partners[id].exists =>
              partners[id].totalPartnerRevenue
                = SumOfRecords(partnerTracking, "partnerId", id, "partnerRevenue",
                               Len(partnerTracking))
         /\ ambassadors[id].exists =>
              ambassadors[id].totalAmbassadorRevenue
                = SumOfRecords(referralTracking, "ambassadorId", id, "commissionEarned",
                               Len(referralTracking))

-----------------------------------------------------------------------------
(* Claims about the usage counters, checked under SpecPayout, where no      *)
(* await of a redemption rejects                                            *)

\* C30: whenever no redeem call is in flight and n > 0 redemptions of a promo
\* code have been recorded, the code's timesUsed is n, the timesUsed mirrored
\* on the partner record is n and the partner's leftPromo is usageLimit - n.
C30_UsageCountersAgree ==
  NoRedeemInFlight =>
    \A i \in DOMAIN promoCodes :
      LET n == Cardinality(RecordsOf(partnerTracking, "promoId", i))
          partner == partners[promoCodes[i].partnerId]
      IN n > 0 => /\ promoCodes[i].timesUsed = n
                  /\ partner.timesUsed = n
                  /\ partner.leftPromo = promoCodes[i].usageLimit - n

-----------------------------------------------------------------------------
(* Claims about applications, checked under SpecSubmit *)

\* C3: no two stored promo codes carry the same code string, and no two stored
\* referral codes carry the same code string.
C3_CodeStringsUnique ==
  /\ \A i, j \in DOMAIN promoCodes :
       i # j => promoCodes[i].promoCode # promoCodes[j].promoCode
  /\ \A i, j \in DOMAIN referralCodes :
       i # j => referralCodes[i].referralCode # referralCodes[j].referralCode

\* the documents submitApplication creates: codes and referrer profiles
Created == <<promoCodes, referralCodes, partners, ambassadors>>

\* call c is in the first pass of its generation loop, about to query the
\* code string the applicant asked for, and that string is taken
PreferredTaken(c) ==
  \/ /\ calls[c].op = "partnerSubmit" /\ calls[c].pc = "ps_generate"
     /\ calls[c].loc.attempts = 0
     /\ calls[c].arg.promoCode # Missing
     /\ PromoCodeTaken(calls[c].arg.promoCode)
  \/ /\ calls[c].op = "ambassadorSubmit" /\ calls[c].pc = "as_generate"
     /\ calls[c].loc.queries = 0
     /\ calls[c].arg.referralCode # Missing
     /\ ReferralCodeTaken(calls[c].arg.referralCode)

\* C23: when the code string an applicant asked for is already in the code
\* store at the uniqueness query, the call ends at that query with an error
\* answer and creates no code and no referrer record, for partner and for
\* ambassador applications.
C23_TakenPreferredCodeIsRejected ==
  [][\A c \in Slots :
       (PreferredTaken(c) /\ calls'[c] # calls[c])
         => /\ calls'[c].pc = "done"
            /\ calls'[c].res.code \in {400, 500}
            /\ UNCHANGED Created]_vars

\* call c is a submitApplication for a user id that has no user document
UnknownApplicant(c) ==
  /\ calls[c].op \in {"partnerSubmit", "ambassadorSubmit"}
  /\ calls[c].pc # "done"
  /\ calls[c].arg.userId \in AllIds
  /\ ~users[calls[c].arg.userId].exists

\* C26: a submitApplication for a user id without a user record creates no
\* code and no referrer record in any of its steps and ends with an error
\* answer, for partner and for ambassador applications.
C26_UnknownUserCreatesNothing ==
  [][\A c \in Slots :
       (UnknownApplicant(c) /\ calls'[c] # calls[c])
         => /\ UNCHANGED Created
            /\ calls'[c].pc = "done" => calls'[c].res.code \in {400, 404, 500}]_vars

-----------------------------------------------------------------------------
(* Claims about the ledger over a referrer's lifecycle, checked under       *)
(* SpecLifecycle                                                            *)

\* the step in which a successful approvePayout zeroes the balance of id
ZeroedByApprovePayout(role, id) ==
  \E c \in Slots :
    /\ At(c, "approvePayout", "ap_updateReferrer")
    /\ calls[c].role = role
    /\ calls[c].loc.request.referrerId = id
    /\ calls'[c].res.code = 200
    /\ Referrers(role)'[id].availableBalance = 0

\* C12: in every step, for every referrer, availableBalance and cumulative
\* revenue (totalPartnerRevenue, totalAmbassadorRevenue) do not decrease,
\* except that a successful approvePayout sets availableBalance to zero.
C12_BalancesNeverDecrease ==
  [][\A id \in UserIds :
       /\ (partners[id].exists /\ partners'[id].exists)
            => /\ partners'[id].totalPartnerRevenue >= partners[id].totalPartnerRevenue
               /\ \/ partners'[id].availableBalance >= partners[id].availableBalance
                  \/ ZeroedByApprovePayout("partner", id)
       /\ (ambassadors[id].exists /\ ambassadors'[id].exists)
            => /\ ambassadors'[id].totalAmbassadorRevenue
                    >= ambassadors[id].totalAmbassadorRevenue
               /\ \/ ambassadors'[id].availableBalance >= ambassadors[id].availableBalance
                  \/ ZeroedByApprovePayout("ambassador", id)]_vars

\* the uniqueness queries the generation loop of call c has made
QueriesMade(c) ==
  IF calls[c].op = "partnerSubmit" /\ calls[c].pc = "ps_generate"
    THEN calls[c].loc.attempts
  ELSE IF calls[c].op = "ambassadorSubmit" /\ calls[c].pc = "as_generate"
    THEN calls[c].loc.queries
  ELSE 0

\* C24: no code-generation loop of submitApplication makes more than 5
\* uniqueness queries, for partner and for ambassador applications, also when
\* the generated candidate is already taken.
C24_GenerationIsBounded ==
  \A c \in Slots : QueriesMade(c) <= MaxAttempts

\* call c is a submitApplication of a user who had a pending or approved
\* referrer record when the call arrived and has one now
AlreadyApplied(c) ==
  /\ calls[c].op \in {"partnerSubmit", "ambassadorSubmit"}
  /\ calls[c].pc # "done"
  /\ calls[c].arg.applied
  /\ Applied(Referrers(calls[c].role), calls[c].arg.userId)

\* C25: a submitApplication of a user whose referrer record is pending or
\* approved changes no referrer record and no code in any of its steps, and it
\* ends with an error answer, for partner and for ambassador applications.
C25_SecondApplicationIsRejected ==
  [][\A c \in Slots :
       (AlreadyApplied(c) /\ calls'[c] # calls[c])
         => /\ UNCHANGED Created
            /\ calls'[c].pc = "done" => calls'[c].res.code \in {400, 500}]_vars

-----------------------------------------------------------------------------
(* Claims about validity windows, checked under SpecStatus *)

\* the validity window of a code document
Window(codeData) == <<codeData.validFrom, codeData.validTo>>

\* codeData has a validity window that has not expired on day today
Unexpired(codeData, today) ==
  codeData.validFrom # Null /\ codeData.validTo # Null /\ codeData.validTo >= today

\* call c, an updateStatus to approved, writes the code it read
PartnerApprovalWrites(c) ==
  /\ calls[c].op = "partnerStatus" /\ calls[c].pc = "pst_updatePromo"
  /\ calls'[c].pc = "pst_updatePartner"

AmbassadorApprovalWrites(c) ==
  /\ calls[c].op = "ambassadorStatus" /\ calls[c].pc = "ast_updateReferral"
  /\ calls'[c].pc = "ast_updateAmbassador"

\* C19: when updateStatus to approved writes a code that still has the
\* validity window the call read, and that window had not expired on the day
\* of the call, the write leaves validFrom and validTo unchanged, for promo
\* codes and for referral codes.
C19_ReapprovalKeepsWindow ==
  [][\A c \in Slots :
       /\ PartnerApprovalWrites(c) =>
            LET loc == calls[c].loc
                promoId == loc.partnerData.promoId
            IN (Unexpired(loc.existingPromo, loc.validFrom)
                  /\ Window(promoCodes[promoId]) = Window(loc.existingPromo))
                 => Window(promoCodes'[promoId]) = Window(promoCodes[promoId])
       /\ AmbassadorApprovalWrites(c) =>
            LET loc == calls[c].loc
                referralId == loc.updatedReferralId
            IN (Unexpired(loc.referralData, loc.validTo - WindowDays)
                  /\ Window(referralCodes[referralId]) = Window(loc.referralData))
                 => Window(referralCodes'[referralId]) = Window(referralCodes[referralId])]_vars

\* C19 witness: a re-approval of partner u1 and one of ambassador u1 have both
\* answered 200 having read an unexpired window, and both codes still have it.
C19_Witness ==
  /\ \E c \in Slots :
       /\ calls[c].op = "partnerStatus" /\ calls[c].pc = "done"
       /\ calls[c].arg.newStatus = "approved" /\ calls[c].res.code = 200
       /\ Unexpired(calls[c].loc.existingPromo, calls[c].loc.validFrom)
       /\ Window(promoCodes[calls[c].loc.partnerData.promoId])
            = Window(calls[c].loc.existingPromo)
  /\ \E c \in Slots :
       /\ calls[c].op = "ambassadorStatus" /\ calls[c].pc = "done"
       /\ calls[c].arg.newStatus = "approved" /\ calls[c].res.code = 200
       /\ Unexpired(calls[c].loc.referralData, calls[c].loc.validTo - WindowDays)
       /\ Window(referralCodes[calls[c].loc.updatedReferralId])
            = Window(calls[c].loc.referralData)

\* C20: when updateStatus to approved writes a code whose validity window, as
\* the call read it, was unset or had expired on the day of the call, the code
\* is active afterwards with validFrom the day of the call and validTo 100 days
\* later, for promo codes and for referral codes.
C20_ApprovalRenewsWindow ==
  [][\A c \in Slots :
       /\ PartnerApprovalWrites(c) =>
            LET loc == calls[c].loc
                promoId == loc.partnerData.promoId
            IN ~Unexpired(loc.existingPromo, loc.validFrom)
                 => /\ promoCodes'[promoId].status = "active"
                    /\ Window(promoCodes'[promoId])
                         = <<loc.validFrom, loc.validFrom + WindowDays>>
       /\ AmbassadorApprovalWrites(c) =>
            LET loc == calls[c].loc
                referralId == loc.updatedReferralId
                today == loc.validTo - WindowDays
            IN ~Unexpired(loc.referralData, today)
                 => /\ referralCodes'[referralId].status = "active"
                    /\ Window(referralCodes'[referralId]) = <<today, today + WindowDays>>]_vars

\* codeData has a validity window that starts before it ends
HasWindow(codeData) ==
  /\ codeData.validFrom # Null
  /\ codeData.validTo # Null
  /\ codeData.validFrom < codeData.validTo

\* C21: in every reachable state every promo code and every referral code with
\* status active has a validFrom and a validTo, and validFrom is before validTo.
C21_ActiveCodesHaveWindow ==
  /\ \A i \in DOMAIN promoCodes :
       promoCodes[i].status = "active" => HasWindow(promoCodes[i])
  /\ \A i \in DOMAIN referralCodes :
       referralCodes[i].status = "active" => HasWindow(referralCodes[i])

\* C21 witness: a promo code that submitApplication created pending, without a
\* window, has been approved: it is active and has its window.
C21_Witness ==
  \E i \in DOMAIN promoCodes :
    /\ i > 1
    /\ promoCodes[i].status = "active"
    /\ HasWindow(promoCodes[i])

\* the fields of a code that a decline must leave alone
Kept(codeData) ==
  <<codeData.validFrom, codeData.validTo, codeData.timesUsed, codeData.usageLimit>>

\* call c, an updateStatus to declined, writes the code
PartnerDeclineWrites(c) ==
  /\ calls[c].op = "partnerStatus" /\ calls[c].pc = "pst_declinePromo"
  /\ calls'[c].pc = "pst_getUser"

AmbassadorDeclineWrites(c) ==
  /\ calls[c].op = "ambassadorStatus" /\ calls[c].pc = "ast_declineReferral"
  /\ calls'[c].pc = "ast_updateAmbassador"

\* C22: the write updateStatus to declined makes to the referrer's code sets
\* its status to inactive and leaves its validFrom, validTo, timesUsed and
\* usageLimit, and every other code, unchanged; and a partner call for declined
\* that answers 200 has made that write.
C22_DeclineOnlyDeactivates ==
  [][\A c \in Slots :
       /\ PartnerDeclineWrites(c) =>
            LET promoId == calls[c].loc.partnerData.promoId
            IN /\ promoCodes'[promoId].status = "inactive"
               /\ Kept(promoCodes'[promoId]) = Kept(promoCodes[promoId])
               /\ \A i \in DOMAIN promoCodes : i # promoId => promoCodes'[i] = promoCodes[i]
               /\ referralCodes' = referralCodes
       /\ AmbassadorDeclineWrites(c) =>
            LET referralId == calls[c].loc.updatedReferralId
            IN /\ referralCodes'[referralId].status = "inactive"
               /\ Kept(referralCodes'[referralId]) = Kept(referralCodes[referralId])
               /\ \A i \in DOMAIN referralCodes :
                    i # referralId => referralCodes'[i] = referralCodes[i]
               /\ promoCodes' = promoCodes
       /\ (Completes(c, "partnerStatus") /\ calls[c].arg.newStatus = "declined"
             /\ calls'[c].res.code = 200)
            => calls[c].pc \in {"pst_getUser", "pst_updateUser", "pst_sendMail"}]_vars

\* C22 witness: a decline of partner u1 and one of ambassador u1 have both
\* answered 200; both codes are inactive and still have the window, the usage
\* count and the usage limit they started with.
C22_Witness ==
  /\ \E c \in Slots :
       /\ calls[c].op = "partnerStatus" /\ calls[c].pc = "done"
       /\ calls[c].arg.newStatus = "declined" /\ calls[c].res.code = 200
  /\ \E c \in Slots :
       /\ calls[c].op = "ambassadorStatus" /\ calls[c].pc = "done"
       /\ calls[c].arg.newStatus = "declined" /\ calls[c].res.code = 200
  /\ promoCodes[1].status = "inactive"
  /\ Kept(promoCodes[1]) = <<0, WindowDays, 0, DefaultUsageLimit>>
  /\ referralCodes[1].status = "inactive"
  /\ Kept(referralCodes[1]) = <<0, WindowDays, 0, DefaultUsageLimit>>

\* C28: when the notification email of a partner updateStatus is rejected the
\* call still answers 200, as it does when the email is sent, and the step
\* changes no document.
C28_MailFailureDoesNotFailCall ==
  [][\A c \in Slots :
       (calls[c].op = "partnerStatus" /\ calls[c].pc = "pst_sendMail"
          /\ calls'[c] # calls[c])
         => /\ calls'[c].res.code = 200
            /\ UNCHANGED <<users, partners, promoCodes>>]_vars

\* the codes of the referrer that have status active
ActivePromos(u) ==
  {i \in DOMAIN promoCodes :
     promoCodes[i].partnerId = u /\ promoCodes[i].status = "active"}

ActiveReferrals(u) ==
  {i \in DOMAIN referralCodes :
     referralCodes[i].ambassadorId = u /\ referralCodes[i].status = "active"}

\* C29: in every reachable state each partner owns at most one promo code
\* with status active and each ambassador at most one referral code with
\* status active, across submitApplication and updateStatus calls.
C29_AtMostOneActiveCode ==
  \A u \in AllIds :
    /\ Cardinality(ActivePromos(u)) <= 1
    /\ Cardinality(ActiveReferrals(u)) <= 1

-----------------------------------------------------------------------------
(* Claims about the status mirrored on the user record, checked under       *)
(* SpecMirror                                                               *)

\* no updateStatus call is between its first and its last step
NoStatusInFlight ==
  \A c \in Slots :
    calls[c].op \in {"partnerStatus", "ambassadorStatus"} => calls[c].pc = "done"

\* C27: whenever no updateStatus call is in flight, after any interleaving of
\* updateStatus calls for one referrer, the application status on the user
\* record equals the status on the partner record and on the ambassador record.
C27_UserMirrorsReferrerStatus ==
  NoStatusInFlight =>
    \A u \in UserIds :
      /\ (users[u].exists /\ partners[u].exists)
           => users[u].partnerApplication = partners[u].status
      /\ (users[u].exists /\ ambassadors[u].exists)
           => users[u].ambassadorApplication = ambassadors[u].status

-----------------------------------------------------------------------------
(* Claims about redemption records when documents are deleted, checked      *)
(* under SpecDelete                                                         *)

\* C31: every redemption record written for a non-negative amount has a
\* referrer revenue between 0 and the final amount and a platform revenue of
\* at least 0, also when the referrer record is missing and the default share
\* is applied.
C31_RevenueWithinFinalAmount ==
  /\ \A i \in DOMAIN partnerTracking :
       LET t == partnerTracking[i]
       IN t.originalAmount >= 0
            => /\ 0 <= t.partnerRevenue
               /\ t.partnerRevenue <= t.finalAmount
               /\ t.companyRevenue >= 0
  /\ \A i \in DOMAIN referralTracking :
       LET t == referralTracking[i]
       IN t.amount >= 0
            => /\ 0 <= t.commissionEarned
               /\ t.commissionEarned <= t.amount

\* C37: in every reachable state every redemption record of a promo code
\* references a promo code document that exists.
C37_RecordsReferenceStoredCodes ==
  \A i \in DOMAIN partnerTracking :
    /\ partnerTracking[i].promoId \in DOMAIN promoCodes
    /\ promoCodes[partnerTracking[i].promoId].exists

-----------------------------------------------------------------------------
(* Claims about what is transferred against what was credited               *)

\* no call is in flight
Quiescent == \A c \in Slots : calls[c].pc \in {"idle", "done"}

\* the transfers made for payout requests of referrer id
PaidTo(role, id) ==
  {i \in DOMAIN transfers :
     /\ transfers[i].role = role
     /\ transfers[i].requestId \in DOMAIN Payouts(role)
     /\ Payouts(role)[transfers[i].requestId].referrerId = id}

\* the cents of the first n transfers that were made for referrer id
RECURSIVE CentsPaid(_, _, _)
CentsPaid(role, id, n) ==
  IF n = 0 THEN 0
  ELSE CentsPaid(role, id, n - 1) + (IF n \in PaidTo(role, id) THEN transfers[n].amount ELSE 0)

\* the cumulative revenue credited to referrer id
Credited(role, id) ==
  IF role = "partner" THEN partners[id].totalPartnerRevenue
  ELSE ambassadors[id].totalAmbassadorRevenue

\* C32: in every state with no call in flight, under any interleaving of
\* redemptions and approvePayout calls, what was transferred to a referrer
\* plus its availableBalance is at least the cumulative revenue credited to
\* it (each transfer counted up to the half cent its rounding may drop).
C32_NoCreditedRevenueLost ==
  Quiescent =>
    \A role \in Roles :
      10 * CentsPaid(role, "u1", Len(transfers)) + 5 * Cardinality(PaidTo(role, "u1"))
        + Referrers(role)["u1"].availableBalance >= Credited(role, "u1")

\* C33: when no payout request was transferred twice, what approvePayout
\* calls on distinct requests of a referrer transferred is at most the
\* cumulative revenue credited to it (each transfer counted down to the half
\* cent its rounding may add).
C33_NoOverpayment ==
  (\A r \in Requests : Cardinality(TransfersOf(r[1], r[2])) <= 1) =>
    \A role \in Roles :
      10 * CentsPaid(role, "u1", Len(transfers)) - 5 * Cardinality(PaidTo(role, "u1"))
        <= Credited(role, "u1")

-----------------------------------------------------------------------------
(* Claims about code status against referrer status, checked under          *)
(* SpecMirror                                                               *)

\* C35: whenever no updateStatus call is in flight, every code with status
\* active is owned by a referrer whose status is approved.
C35_ActiveCodeHasApprovedOwner ==
  NoStatusInFlight =>
    /\ \A i \in DOMAIN promoCodes :
         (promoCodes[i].exists /\ promoCodes[i].status = "active")
           => /\ partners[promoCodes[i].partnerId].exists
              /\ partners[promoCodes[i].partnerId].status = "approved"
    /\ \A i \in DOMAIN referralCodes :
         (referralCodes[i].exists /\ referralCodes[i].status = "active")
           => /\ ambassadors[referralCodes[i].ambassadorId].exists
              /\ ambassadors[referralCodes[i].ambassadorId].status = "approved"

-----------------------------------------------------------------------------
(* Claims about the expiry kept on the referrer record, checked under       *)
(* SpecStatus                                                               *)

\* the step in which updateStatus to approved writes the partner record
PartnerApprovalRecords(c) ==
  /\ calls[c].op = "partnerStatus" /\ calls[c].pc = "pst_updatePartner"
  /\ calls'[c].pc = "pst_getUser"

\* the step in which updateStatus to approved writes the ambassador record
\* of an ambassador that has a referral code
AmbassadorApprovalRecords(c) ==
  /\ calls[c].op = "ambassadorStatus" /\ calls[c].pc = "ast_updateAmbassador"
  /\ calls[c].arg.newStatus = "approved"
  /\ calls[c].loc.updatedReferralCode # Missing
  /\ calls'[c].pc = "ast_getUser"

\* C38: when updateStatus to approved writes the referrer record, the expiry
\* it records (promoCodeValidTo, referralCodeValidTo) equals the validTo stored
\* on the referrer's code, also when the call kept the code's unexpired window.
C38_RecordedExpiryIsCodeExpiry ==
  [][\A c \in Slots :
       /\ PartnerApprovalRecords(c) =>
            partners'[calls[c].arg.partnerId].promoCodeValidTo
              = promoCodes'[calls[c].loc.partnerData.promoId].validTo
       /\ AmbassadorApprovalRecords(c) =>
            ambassadors'[calls[c].arg.userId].referralCodeValidTo
              = referralCodes'[calls[c].loc.updatedReferralId].validTo]_vars

-----------------------------------------------------------------------------
(* Claims about the Stripe account status, checked under SpecWebhook        *)

\* the step in which approvePayout calls stripe.transfers.create
TransferInvoked(c) ==
  /\ calls[c].op = "approvePayout" /\ calls[c].pc = "ap_transfer"
  /\ calls'[c].pc # "ap_transfer"

\* C36: stripe.transfers.create is never called for the account of a
\* referrer whose stored Stripe status says that onboarding is not completed
\* or that payouts are not enabled.
C36_NoTransferToDisabledAccount ==
  [][\A c \in Slots :
       TransferInvoked(c) =>
         LET request == calls[c].loc.request
             d == Referrers(calls[c].role)[request.referrerId]
         IN (d.exists /\ d.connectAccountId = request.connectedAccountId)
              => (d.onboardingCompleted /\ d.payoutsEnabled)]_vars

-----------------------------------------------------------------------------
(* Claims about the earliest payout variant, checked under SpecEarly        *)

\* the step in which stripe.transfers.create of /approve-payout succeeds
EarlyTransfers(c) ==
  /\ calls[c].op = "approve-payout" /\ calls[c].pc = "eap_transfer"
  /\ calls'[c].pc = "eap_updateRequest"

\* the requests of ambassador id that were approved before call c began, with
\* no redemption credited to id since they were made: their amount is still
\* the ambassador's commissionEarned
PaidBefore(c, id) ==
  {r \in calls[c].arg.approved :
     /\ ambassador_payouts[r].ambassadorId = id
     /\ ambassador_payouts[r].amount = ambassadors[id].commissionEarned}

\* C34: once /approve-payout has succeeded for an ambassador and no
\* redemption has been credited since, a later /approve-payout call, whatever
\* /request-payout calls precede it, makes no transfer for that ambassador.
C34_EarnedRevenuePaidOnce ==
  [][\A c \in Slots :
       EarlyTransfers(c) => PaidBefore(c, calls[c].loc.request.ambassadorId) = {}]_vars

\* the step in which /cancel-payout answers after its read of the request
EarlyCancelAnswers(c) ==
  /\ calls[c].op = "cancel-payout" /\ calls[c].pc = "ecp_getRequest"
  /\ calls'[c].pc = "done"

\* C39: when /cancel-payout is called for a request that /request-payout
\* created and that is still pending, its read finds the request: it answers
\* at that point only if the read itself fails.
C39_CancelFindsPendingRequest ==
  [][\A c \in Slots :
       (/\ EarlyCancelAnswers(c)
        /\ GetEarlyRequest(ambassador_payouts, calls[c].arg.requestId).exists
        /\ GetEarlyRequest(ambassador_payouts, calls[c].arg.requestId).status = "pending")
         => calls'[c].res.code = 500]_vars

====
